---- MODULE Spec2Model ----
(***************************************************************************)
(* Task-management backend: users, task lists and tasks.                   *)
(*                                                                         *)
(* The store is the three SQL tables behind the SQLAlchemy repositories;   *)
(* the actions are the use cases of app/application/use_cases, each        *)
(* translated statement by statement together with the repository calls it *)
(* makes.  Strings are sequences of one-character strings so that          *)
(* str.strip() and str.lower() are computed, not assumed.                  *)
(* Timestamps (created_at, updated_at) are not modelled.                   *)
(***************************************************************************)
EXTENDS Integers, Sequences, FiniteSets, TLC

\* ------------------------------------------------------------------------
\* Bounds of the model (number of rows each table's id sequence may issue,
\* and number of concurrent requests of the race specification).
MaxUsers == 2
MaxTaskLists == 3
MaxTasks == 4
\* Tighter cap on the number of tasks created where titles vary
MaxTitleTasks == 2
\* Number of requests in flight at once
MaxRequests == 2
\* Cap on the number of tasks created where status and assignment vary
MaxFlowTasks == 2
\* The clock advances in steps of TickMinutes up to MaxTime (minutes)
TickMinutes == 10
MaxTime == 50
\* Cap on the number of access tokens handed out
MaxTokens == 2

\* ------------------------------------------------------------------------
\* Optional[T]: None is the empty set, a present value x is {x}.
None == {}
Some(x) == {x}
Val(o) == CHOOSE x \in o : TRUE

\* Python truthiness of an Optional[int] / Optional[str] (if x: ...)
TruthyInt(o) == o # None /\ Val(o) # 0
TruthyStr(o) == o # None /\ Val(o) # <<>>

\* ------------------------------------------------------------------------
\* Strings
Whitespace == {" "}

RECURSIVE lstrip(_)
lstrip(s) ==
    IF s = <<>> THEN s
    ELSE IF Head(s) \in Whitespace THEN lstrip(Tail(s)) ELSE s

RECURSIVE rstrip(_)
rstrip(s) ==
    IF s = <<>> THEN s
    ELSE IF s[Len(s)] \in Whitespace THEN rstrip(SubSeq(s, 1, Len(s) - 1)) ELSE s

\* str.strip()
strip(s) == rstrip(lstrip(s))

LowerChar(c) ==
    CASE c = "A" -> "a"
      [] c = "B" -> "b"
      [] c = "X" -> "x"
      [] OTHER -> c

\* str.lower()
lower(s) == [i \in 1..Len(s) |-> LowerChar(s[i])]

\* "@" in s
Contains(s, c) == \E i \in 1..Len(s) : s[i] = c

\* ------------------------------------------------------------------------
\* State
VARIABLES
    users,          \* rows of table users
    task_lists,     \* rows of table task_lists
    tasks,          \* rows of table tasks
    next_user_id,   \* next value of the users.id sequence
    next_list_id,   \* next value of the task_lists.id sequence
    next_task_id,   \* next value of the tasks.id sequence
    result,         \* outcome of the last finished call
    pc,             \* position of each in-flight request (race specification)
    now,            \* datetime.utcnow(), in minutes
    tokens,         \* access tokens handed out so far
    sent_emails     \* MockEmailService.sent_emails: the notifications sent so far

store == <<users, task_lists, tasks, next_user_id, next_list_id, next_task_id>>
\* what no use case touches: request positions, the clock, the tokens, the
\* notifications (no use case holds an email service)
aux == <<pc, now, tokens, sent_emails>>
vars == <<users, task_lists, tasks, next_user_id, next_list_id, next_task_id, result, pc,
          now, tokens, sent_emails>>

NoResult == [op |-> "none", kind |-> "none", about |-> "none", value |-> None]

Init ==
    /\ users = {}
    /\ task_lists = {}
    /\ tasks = {}
    /\ next_user_id = 1
    /\ next_list_id = 1
    /\ next_task_id = 1
    /\ result = NoResult
    /\ pc = <<>>
    /\ now = 0
    /\ tokens = {}
    /\ sent_emails = <<>>

\* Outcome of a call or of a part of it: what it raises or returns.
Raised(kind, about) == [kind |-> kind, about |-> about, value |-> None]
Returned(v) == [kind |-> "ok", about |-> "none", value |-> v]

\* A call that raises: nothing is written.
Raise(op, kind, about) ==
    /\ result' = [op |-> op, kind |-> kind, about |-> about, value |-> None]
    /\ UNCHANGED store
    /\ UNCHANGED aux

\* A call that returns v.
Return(op, v) == result' = [op |-> op, kind |-> "ok", about |-> "none", value |-> v]

\* ------------------------------------------------------------------------
\* SQLUserRepository (app/infrastructure/repositories/user_repository.py)
\* A user row is [id, username, email, full_name, status].

UserRepo_get_by_id(user_id) == {u \in users : u.id = user_id}

exists_by_username_any_id(username, exclude_id) ==
    \E u \in users : u.username = username
exists_by_username(username, exclude_id) ==
    \E u \in users :
        /\ u.username = username
        /\ (TruthyInt(exclude_id) => u.id # Val(exclude_id))

exists_by_email(email, exclude_id) ==
    \E u \in users :
        /\ u.email = email
        /\ (TruthyInt(exclude_id) => u.id # Val(exclude_id))

\* UNIQUE(username), UNIQUE(email) of table users: would writing row u
\* violate them?
UserUniqueViolated(u) ==
    \E o \in users : o.id # u.id /\ (o.username = u.username \/ o.email = u.email)

\* SQLUserRepository.create: the row of a User entity, and its INSERT
UserRow(user) ==
    [id |-> next_user_id, username |-> user.username, email |-> user.email,
     full_name |-> user.full_name, status |-> user.status]

InsertUser(row) ==
    /\ next_user_id <= MaxUsers
    /\ users' = users \cup {row}
    /\ next_user_id' = next_user_id + 1
    /\ UNCHANGED <<task_lists, tasks, next_list_id, next_task_id>>

\* ------------------------------------------------------------------------
\* UserUseCases (app/application/use_cases/user.py)

\* email.strip().lower(), the form in which an email is compared and stored
normalize_email_nolower(email) == strip(email)
normalize_email(email) == lower(strip(email))

\* Field(max_length=...) of the User entity (app/domain/models/entities.py)
username_max_length == 50
email_max_length == 100
full_name_max_length == 100

\* create_user up to the call of user_repository.create: what it raises,
\* or the User entity it builds
create_user_check(username, email, full_name, status) ==
    IF username = <<>> \/ Len(strip(username)) < 3 THEN
        Raised("InvalidData", "username")
    ELSE IF email = <<>> \/ ~Contains(email, "@") THEN
        Raised("InvalidData", "email")
    ELSE IF full_name = <<>> \/ Len(strip(full_name)) < 1 THEN
        Raised("InvalidData", "full_name")
    ELSE IF exists_by_username(strip(username), None) THEN
        Raised("DuplicateEntity", "username")
    ELSE IF exists_by_email(normalize_email(email), None) THEN
        Raised("DuplicateEntity", "email")
    ELSE IF \/ Len(strip(username)) > username_max_length
            \/ Len(normalize_email(email)) > email_max_length
            \/ Len(strip(full_name)) > full_name_max_length THEN
        \* User(username=..., email=..., full_name=...) : Field(max_length=...)
        \* of the entity
        Raised("ValidationError", "max_length")
    ELSE
        Returned([username |-> strip(username),
                  email |-> normalize_email(email),
                  full_name |-> strip(full_name),
                  status |-> status])

create_user(username, email, full_name, status) ==
    LET checked == create_user_check(username, email, full_name, status) IN
    IF checked.kind # "ok" THEN
        Raise("create_user", checked.kind, checked.about)
    ELSE IF UserUniqueViolated(UserRow(checked.value)) THEN
        Raise("create_user", "IntegrityError", "users")
    ELSE
        /\ InsertUser(UserRow(checked.value))
        /\ Return("create_user", Some(UserRow(checked.value)))
        /\ UNCHANGED aux

\* username, email, full_name, status are Optional: None leaves the field.
\* The checks run on a copy of the row (get_by_id returns _to_domain(db_user)),
\* which is written back only after the last check (update_user); an update
\* that wrote each field to the row as soon as it was accepted is
\* update_user_in_place.
update_user_in_place(user_id, username, email, full_name, status) ==
    IF UserRepo_get_by_id(user_id) = None THEN
        Raise("update_user", "EntityNotFound", "user")
    ELSE
        LET user == Val(UserRepo_get_by_id(user_id))
            renamed ==
                [user EXCEPT !.username =
                    IF /\ username # None
                       /\ Len(strip(Val(username))) >= 3
                       /\ ~exists_by_username(strip(Val(username)), Some(user_id))
                    THEN strip(Val(username)) ELSE @]
        IN  IF email # None /\ exists_by_email(normalize_email(Val(email)), Some(user_id)) THEN
                /\ users' = (users \ {user}) \cup {renamed}
                /\ result' = [op |-> "update_user", kind |-> "DuplicateEntity",
                              about |-> "email", value |-> None]
                /\ UNCHANGED <<task_lists, tasks, next_user_id, next_list_id, next_task_id, aux>>
            ELSE
                /\ users' = (users \ {user}) \cup {renamed}
                /\ Return("update_user", Some(renamed))
                /\ UNCHANGED <<task_lists, tasks, next_user_id, next_list_id, next_task_id, aux>>
update_user(user_id, username, email, full_name, status) ==
    IF user_id <= 0 THEN
        Raise("update_user", "InvalidData", "user_id")
    ELSE IF UserRepo_get_by_id(user_id) = None THEN
        Raise("update_user", "EntityNotFound", "user")
    ELSE
        LET user == Val(UserRepo_get_by_id(user_id)) IN
        IF username # None /\ Len(strip(Val(username))) < 3 THEN
            Raise("update_user", "InvalidData", "username")
        ELSE IF username # None /\ exists_by_username(strip(Val(username)), Some(user_id)) THEN
            Raise("update_user", "DuplicateEntity", "username")
        ELSE IF email # None /\ ~Contains(Val(email), "@") THEN
            Raise("update_user", "InvalidData", "email")
        ELSE IF email # None /\ exists_by_email(normalize_email(Val(email)), Some(user_id)) THEN
            Raise("update_user", "DuplicateEntity", "email")
        ELSE IF full_name # None /\ Len(strip(Val(full_name))) < 1 THEN
            Raise("update_user", "InvalidData", "full_name")
        ELSE
            LET updated ==
                    [id |-> user.id,
                     username |-> IF username # None THEN strip(Val(username)) ELSE user.username,
                     email |-> IF email # None THEN normalize_email(Val(email)) ELSE user.email,
                     full_name |-> IF full_name # None THEN strip(Val(full_name)) ELSE user.full_name,
                     status |-> IF status # None THEN Val(status) ELSE user.status]
            IN  IF UserUniqueViolated(updated) THEN
                    Raise("update_user", "IntegrityError", "users")
                ELSE
                    /\ users' = (users \ {user}) \cup {updated}
                    /\ Return("update_user", Some(updated))
                    /\ UNCHANGED <<task_lists, tasks, next_user_id, next_list_id, next_task_id, aux>>

\* Deleting the row: the relationship UserModel.assigned_tasks has no delete
\* cascade, so the ORM sets assigned_user_id of the user's tasks to NULL
\* (delete_user); a delete that left the tasks alone is
\* delete_user_keep_assignment.
delete_user_keep_assignment(user_id) ==
    IF user_id <= 0 THEN
        Raise("delete_user", "InvalidData", "user_id")
    ELSE IF UserRepo_get_by_id(user_id) = None THEN
        Raise("delete_user", "EntityNotFound", "user")
    ELSE
        /\ users' = {u \in users : u.id # user_id}
        /\ Return("delete_user", Some(TRUE))
        /\ UNCHANGED <<task_lists, tasks, next_user_id, next_list_id, next_task_id, aux>>
delete_user(user_id) ==
    IF user_id <= 0 THEN
        Raise("delete_user", "InvalidData", "user_id")
    ELSE IF UserRepo_get_by_id(user_id) = None THEN
        Raise("delete_user", "EntityNotFound", "user")
    ELSE
        /\ users' = {u \in users : u.id # user_id}
        /\ tasks' = {IF t.assigned_user_id = Some(user_id)
                        THEN [t EXCEPT !.assigned_user_id = None] ELSE t : t \in tasks}
        /\ Return("delete_user", Some(TRUE))
        /\ UNCHANGED <<task_lists, next_user_id, next_list_id, next_task_id, aux>>


\* ------------------------------------------------------------------------
\* SQLTaskListRepository
\* (app/infrastructure/repositories/task_list_repository.py)
\* A task list row is [id, name, description].

TaskListRepo_get_by_id_or_lower(task_list_id) == {l \in task_lists : l.id <= task_list_id}
TaskListRepo_get_by_id(task_list_id) == {l \in task_lists : l.id = task_list_id}

exists_by_name(name, exclude_id) ==
    \E l \in task_lists :
        /\ l.name = name
        /\ (TruthyInt(exclude_id) => l.id # Val(exclude_id))

\* UNIQUE(name) of table task_lists: would writing row l violate it?
NoTaskListUnique(l) == FALSE
TaskListUniqueViolated(l) ==
    \E o \in task_lists : o.id # l.id /\ o.name = l.name

\* SQLTaskListRepository.create: the row of a TaskList entity, and its INSERT
TaskListRow(task_list) ==
    [id |-> next_list_id, name |-> task_list.name, description |-> task_list.description]

InsertTaskList(row) ==
    /\ next_list_id <= MaxTaskLists
    /\ task_lists' = task_lists \cup {row}
    /\ next_list_id' = next_list_id + 1
    /\ UNCHANGED <<users, tasks, next_user_id, next_task_id>>

\* ------------------------------------------------------------------------
\* TaskListUseCases (app/application/use_cases/task_list.py)

\* create_task_list up to the call of task_list_repository.create
create_task_list_check(name, description) ==
    IF exists_by_name(name, None) THEN
        Raised("TaskListNameAlreadyExists", "name")
    ELSE IF Len(name) < 1 THEN
        \* TaskList(name=...) : Field(min_length=1) of the entity
        Raised("ValidationError", "name")
    ELSE
        Returned([name |-> name, description |-> description])

create_task_list(name, description) ==
    LET checked == create_task_list_check(name, description) IN
    IF checked.kind # "ok" THEN
        Raise("create_task_list", checked.kind, checked.about)
    ELSE IF TaskListUniqueViolated(TaskListRow(checked.value)) THEN
        Raise("create_task_list", "IntegrityError", "task_lists")
    ELSE
        /\ InsertTaskList(TaskListRow(checked.value))
        /\ Return("create_task_list", Some(TaskListRow(checked.value)))
        /\ UNCHANGED aux

\* name and description are Optional: None leaves the field.
update_task_list(task_list_id, name, description) ==
    IF TaskListRepo_get_by_id(task_list_id) = None THEN
        Raise("update_task_list", "TaskListNotFound", "task_list")
    ELSE
        LET task_list == Val(TaskListRepo_get_by_id(task_list_id)) IN
        IF /\ TruthyStr(name)
           /\ Val(name) # task_list.name
           /\ exists_by_name(Val(name), Some(task_list_id)) THEN
            Raise("update_task_list", "TaskListNameAlreadyExists", "name")
        ELSE
            LET updated ==
                    [id |-> task_list.id,
                     name |-> IF name # None THEN Val(name) ELSE task_list.name,
                     description |-> IF description # None THEN description
                                     ELSE task_list.description]
            IN  IF TaskListUniqueViolated(updated) THEN
                    Raise("update_task_list", "IntegrityError", "task_lists")
                ELSE
                    /\ task_lists' = (task_lists \ {task_list}) \cup {updated}
                    /\ Return("update_task_list", Some(updated))
                    /\ UNCHANGED <<users, tasks, next_user_id, next_list_id, next_task_id, aux>>

\* TaskListModel.tasks has cascade="all, delete-orphan": the tasks of the
\* list are deleted with it (delete_task_list); a delete of the list row
\* alone is delete_task_list_keep_tasks.
delete_task_list_keep_tasks(task_list_id) ==
    IF TaskListRepo_get_by_id(task_list_id) = None THEN
        Raise("delete_task_list", "TaskListNotFound", "task_list")
    ELSE
        /\ task_lists' = {l \in task_lists : l.id # task_list_id}
        /\ Return("delete_task_list", Some(TRUE))
        /\ UNCHANGED <<users, tasks, next_user_id, next_list_id, next_task_id, aux>>
delete_task_list(task_list_id) ==
    IF TaskListRepo_get_by_id(task_list_id) = None THEN
        Raise("delete_task_list", "TaskListNotFound", "task_list")
    ELSE
        /\ task_lists' = {l \in task_lists : l.id # task_list_id}
        /\ tasks' = {t \in tasks : t.task_list_id # task_list_id}
        /\ Return("delete_task_list", Some(TRUE))
        /\ UNCHANGED <<users, next_user_id, next_list_id, next_task_id, aux>>


\* ------------------------------------------------------------------------
\* SQLTaskRepository (app/infrastructure/repositories/task_repository.py)
\* A task row is [id, title, description, status, priority, due_date,
\* task_list_id, assigned_user_id].  Table tasks declares no unique
\* constraint.

TaskRepo_get_by_id(task_id) == {t \in tasks : t.id = task_id}

get_by_task_list_id(task_list_id) == {t \in tasks : t.task_list_id = task_list_id}

exists_by_title_in_list_later_ids(title, task_list_id, exclude_id) ==
    \E t \in tasks :
        /\ t.title = title
        /\ t.task_list_id = task_list_id
        /\ (exclude_id # None => t.id > Val(exclude_id))
exists_by_title_in_list(title, task_list_id, exclude_id) ==
    \E t \in tasks :
        /\ t.title = title
        /\ t.task_list_id = task_list_id
        /\ (TruthyInt(exclude_id) => t.id # Val(exclude_id))

\* status, priority and assigned_user_id are Optional filters; a query
\* without ORDER BY returns the rows in no particular order (a set).
get_filtered_tasks_no_priority(task_list_id, status, priority, assigned_user_id) ==
    {t \in tasks :
        /\ t.task_list_id = task_list_id
        /\ (status # None => t.status = Val(status))
        /\ (TruthyInt(assigned_user_id) => t.assigned_user_id = assigned_user_id)}
get_filtered_tasks(task_list_id, status, priority, assigned_user_id) ==
    {t \in tasks :
        /\ t.task_list_id = task_list_id
        /\ (status # None => t.status = Val(status))
        /\ (priority # None => t.priority = Val(priority))
        /\ (TruthyInt(assigned_user_id) => t.assigned_user_id = assigned_user_id)}

\* SQLTaskRepository.create: the row of a Task entity, and its INSERT
TaskRow(task) ==
    [id |-> next_task_id, title |-> task.title, description |-> task.description,
     status |-> task.status, priority |-> task.priority, due_date |-> task.due_date,
     task_list_id |-> task.task_list_id, assigned_user_id |-> task.assigned_user_id]

InsertTask(row) ==
    /\ next_task_id <= MaxTasks
    /\ tasks' = tasks \cup {row}
    /\ next_task_id' = next_task_id + 1
    /\ UNCHANGED <<users, task_lists, next_user_id, next_list_id>>

\* ------------------------------------------------------------------------
\* TaskUseCases (app/application/use_cases/task.py)

\* create_task up to the call of task_repository.create
create_task_check(title, description, task_list_id, priority, due_date, assigned_user_id) ==
    IF title = <<>> \/ Len(strip(title)) < 1 THEN
        Raised("InvalidData", "title")
    ELSE IF description = <<>> \/ Len(strip(description)) < 1 THEN
        Raised("InvalidData", "description")
    ELSE IF task_list_id <= 0 THEN
        Raised("InvalidData", "task_list_id")
    ELSE IF TaskListRepo_get_by_id(task_list_id) = None THEN
        Raised("EntityNotFound", "task_list")
    ELSE IF exists_by_title_in_list(strip(title), task_list_id, None) THEN
        Raised("DuplicateEntity", "title")
    ELSE IF assigned_user_id # None /\ Val(assigned_user_id) <= 0 THEN
        Raised("InvalidData", "assigned_user_id")
    ELSE IF assigned_user_id # None /\ UserRepo_get_by_id(Val(assigned_user_id)) = None THEN
        Raised("EntityNotFound", "user")
    ELSE
        Returned([title |-> strip(title),
                  description |-> strip(description),
                  status |-> "pending",
                  priority |-> priority,
                  due_date |-> due_date,
                  task_list_id |-> task_list_id,
                  assigned_user_id |-> assigned_user_id])

create_task(title, description, task_list_id, priority, due_date, assigned_user_id) ==
    LET checked == create_task_check(title, description, task_list_id, priority,
                                     due_date, assigned_user_id)
    IN  IF checked.kind # "ok" THEN
            Raise("create_task", checked.kind, checked.about)
        ELSE
            /\ InsertTask(TaskRow(checked.value))
            /\ Return("create_task", Some(TaskRow(checked.value)))
            /\ UNCHANGED aux

get_task_by_id(task_id) ==
    IF task_id <= 0 THEN Raised("InvalidData", "task_id")
    ELSE IF TaskRepo_get_by_id(task_id) = None THEN Raised("EntityNotFound", "task")
    ELSE Returned(TaskRepo_get_by_id(task_id))

get_tasks_by_list_id_unchecked_user(task_list_id, status, priority, assigned_user_id) ==
    IF task_list_id <= 0 THEN
        Raised("InvalidData", "task_list_id")
    ELSE IF TaskListRepo_get_by_id(task_list_id) = None THEN
        Raised("EntityNotFound", "task_list")
    ELSE IF assigned_user_id # None /\ Val(assigned_user_id) <= 0 THEN
        Raised("InvalidData", "assigned_user_id")
    ELSE
        Returned(get_filtered_tasks(task_list_id, status, priority, assigned_user_id))
get_tasks_by_list_id(task_list_id, status, priority, assigned_user_id) ==
    IF task_list_id <= 0 THEN
        Raised("InvalidData", "task_list_id")
    ELSE IF TaskListRepo_get_by_id(task_list_id) = None THEN
        Raised("EntityNotFound", "task_list")
    ELSE IF assigned_user_id # None /\ Val(assigned_user_id) <= 0 THEN
        Raised("InvalidData", "assigned_user_id")
    ELSE IF assigned_user_id # None /\ UserRepo_get_by_id(Val(assigned_user_id)) = None THEN
        Raised("EntityNotFound", "user")
    ELSE
        Returned(get_filtered_tasks(task_list_id, status, priority, assigned_user_id))

\* title, description, priority, due_date, assigned_user_id are Optional:
\* None leaves the field.
update_task(task_id, title, description, priority, due_date, assigned_user_id) ==
    LET found == get_task_by_id(task_id) IN
    IF found.kind # "ok" THEN
        Raise("update_task", found.kind, found.about)
    ELSE
        LET task == Val(found.value) IN
        IF title # None /\ Len(strip(Val(title))) < 1 THEN
            Raise("update_task", "InvalidData", "title")
        ELSE IF title # None
                /\ exists_by_title_in_list(strip(Val(title)), task.task_list_id, Some(task_id)) THEN
            Raise("update_task", "DuplicateEntity", "title")
        ELSE IF description # None /\ Len(strip(Val(description))) < 1 THEN
            Raise("update_task", "InvalidData", "description")
        ELSE IF assigned_user_id # None /\ Val(assigned_user_id) <= 0 THEN
            Raise("update_task", "InvalidData", "assigned_user_id")
        ELSE IF assigned_user_id # None /\ UserRepo_get_by_id(Val(assigned_user_id)) = None THEN
            Raise("update_task", "EntityNotFound", "user")
        ELSE
            LET updated ==
                    [task EXCEPT
                        !.title = IF title # None THEN strip(Val(title)) ELSE @,
                        !.description = IF description # None THEN strip(Val(description)) ELSE @,
                        !.priority = IF priority # None THEN Val(priority) ELSE @,
                        !.due_date = IF due_date # None THEN due_date ELSE @,
                        !.assigned_user_id = IF assigned_user_id # None THEN assigned_user_id ELSE @]
            IN  /\ tasks' = (tasks \ {task}) \cup {updated}
                /\ Return("update_task", Some(updated))
                /\ UNCHANGED <<users, task_lists, next_user_id, next_list_id, next_task_id, aux>>

update_task_status_keep_closed(task_id, status) ==
    LET found == get_task_by_id(task_id) IN
    IF found.kind # "ok" THEN
        Raise("update_task_status", found.kind, found.about)
    ELSE
        LET task == Val(found.value)
            updated == IF task.status \in {"completed", "cancelled"} THEN task
                       ELSE [task EXCEPT !.status = status]
        IN  /\ tasks' = (tasks \ {task}) \cup {updated}
            /\ Return("update_task_status", Some(updated))
            /\ UNCHANGED <<users, task_lists, next_user_id, next_list_id, next_task_id, aux>>
update_task_status(task_id, status) ==
    LET found == get_task_by_id(task_id) IN
    IF found.kind # "ok" THEN
        Raise("update_task_status", found.kind, found.about)
    ELSE
        LET task == Val(found.value)
            updated == [task EXCEPT !.status = status]
        IN  /\ tasks' = (tasks \ {task}) \cup {updated}
            /\ Return("update_task_status", Some(updated))
            /\ UNCHANGED <<users, task_lists, next_user_id, next_list_id, next_task_id, aux>>

\* user_id is Optional: None unassigns.
assign_task_to_user_unchecked_user(task_id, user_id) ==
    LET found == get_task_by_id(task_id) IN
    IF found.kind # "ok" THEN
        Raise("assign_task_to_user", found.kind, found.about)
    ELSE IF user_id # None /\ Val(user_id) <= 0 THEN
        Raise("assign_task_to_user", "InvalidData", "user_id")
    ELSE
        LET task == Val(found.value)
            updated == [task EXCEPT !.assigned_user_id = user_id]
        IN  /\ tasks' = (tasks \ {task}) \cup {updated}
            /\ Return("assign_task_to_user", Some(updated))
            /\ UNCHANGED <<users, task_lists, next_user_id, next_list_id, next_task_id, aux>>
assign_task_to_user(task_id, user_id) ==
    LET found == get_task_by_id(task_id) IN
    IF found.kind # "ok" THEN
        Raise("assign_task_to_user", found.kind, found.about)
    ELSE IF user_id # None /\ Val(user_id) <= 0 THEN
        Raise("assign_task_to_user", "InvalidData", "user_id")
    ELSE IF user_id # None /\ UserRepo_get_by_id(Val(user_id)) = None THEN
        Raise("assign_task_to_user", "EntityNotFound", "user")
    ELSE
        LET task == Val(found.value)
            updated == [task EXCEPT !.assigned_user_id = user_id]
        IN  /\ tasks' = (tasks \ {task}) \cup {updated}
            /\ Return("assign_task_to_user", Some(updated))
            /\ UNCHANGED <<users, task_lists, next_user_id, next_list_id, next_task_id, aux>>

delete_task(task_id) ==
    LET found == get_task_by_id(task_id) IN
    IF found.kind # "ok" THEN
        Raise("delete_task", found.kind, found.about)
    ELSE
        /\ tasks' = {t \in tasks : t.id # task_id}
        /\ Return("delete_task", Some(TRUE))
        /\ UNCHANGED <<users, task_lists, next_user_id, next_list_id, next_task_id, aux>>


\* ------------------------------------------------------------------------
\* Inputs of the calls
OptionalOf(S) == {None} \cup {Some(x) : x \in S}

UsernameIn == {<<"b","o","b">>, <<" ","b","o","b">>, <<"B","o","b">>, <<"b","o">>}
EmailIn == {<<"a","@","x">>, <<"A","@","X">>, <<" ","a","@","x"," ">>, <<"b","@","x">>, <<"a","x">>}
FullNameIn == {<<"n">>, <<" ">>}
UserIdIn == 0..(MaxUsers + 1)

NameIn == {<<"X">>, <<" ","X">>, <<"Y">>, <<>>}
DescriptionIn == {<<"d">>}
TaskListIdIn == 0..(MaxTaskLists + 1)

\* ------------------------------------------------------------------------
\* User management, one call at a time
DoCreateUser ==
    \E username \in UsernameIn, email \in EmailIn, full_name \in FullNameIn :
        create_user(username, email, full_name, "active")

DoUpdateUser ==
    \E user_id \in UserIdIn, username \in OptionalOf(UsernameIn),
       email \in OptionalOf(EmailIn), full_name \in OptionalOf(FullNameIn),
       status \in OptionalOf({"inactive"}) :
        update_user(user_id, username, email, full_name, status)

DoDeleteUser == \E user_id \in UserIdIn : delete_user(user_id)

NextUsers == DoCreateUser \/ DoUpdateUser \/ DoDeleteUser

SpecUsers == Init /\ [][NextUsers]_vars

\* ------------------------------------------------------------------------
\* Task list management, one call at a time
DoCreateTaskList ==
    \E name \in NameIn, description \in OptionalOf(DescriptionIn) :
        create_task_list(name, description)

DoUpdateTaskList ==
    \E task_list_id \in TaskListIdIn, name \in OptionalOf(NameIn),
       description \in OptionalOf(DescriptionIn) :
        update_task_list(task_list_id, name, description)

DoDeleteTaskList == \E task_list_id \in TaskListIdIn : delete_task_list(task_list_id)

NextLists == DoCreateTaskList \/ DoUpdateTaskList \/ DoDeleteTaskList

SpecLists == Init /\ [][NextLists]_vars

\* ------------------------------------------------------------------------
\* C2: after any sequence of create_task_list, update_task_list and
\* delete_task_list calls, no two stored task lists have names that are equal
\* after trimming surrounding whitespace.
TaskListNamesUniqueTrimmed ==
    \A l1, l2 \in task_lists : l1 # l2 => strip(l1.name) # strip(l2.name)

\* C3: after any sequence of create_user, update_user and delete_user calls,
\* no two stored users have the same username and no two stored users have
\* emails that are equal ignoring letter case.
UsersUnique ==
    \A u1, u2 \in users :
        u1 # u2 => /\ u1.username # u2.username
                   /\ lower(u1.email) # lower(u2.email)

\* Two users are stored and a create or update whose email, once trimmed and
\* lowered, is the email of another user was refused.
UsersUniqueWitness ==
    /\ Cardinality(users) = 2
    /\ result.op \in {"create_user", "update_user"}
    /\ result.kind = "DuplicateEntity"
    /\ result.about = "email"


\* ------------------------------------------------------------------------
\* Task management, one call at a time, on a store that already holds two
\* task lists and one user (the state after create_task_list("X"),
\* create_task_list("Y") and create_user("bob", "a@x", "n")).
SeededStore ==
    /\ users = {[id |-> 1, username |-> <<"b","o","b">>, email |-> <<"a","@","x">>,
                 full_name |-> <<"n">>, status |-> "active"]}
    /\ task_lists = {[id |-> 1, name |-> <<"X">>, description |-> None],
                     [id |-> 2, name |-> <<"Y">>, description |-> None]}
    /\ tasks = {}
    /\ next_user_id = 2
    /\ next_list_id = 3
    /\ next_task_id = 1

InitSeeded ==
    /\ SeededStore
    /\ result = NoResult
    /\ pc = <<>>
    /\ now = 0
    /\ tokens = {}
    /\ sent_emails = <<>>

TitleIn == {<<"a">>, <<" ","a">>, <<"A">>, <<" ">>}
TaskDescriptionIn == {<<"d">>, <<>>}
TaskIdIn == 0..(MaxTitleTasks + 1)
ListRefIn == 0..3

DoCreateTask ==
    /\ next_task_id <= MaxTitleTasks
    /\ \E title \in TitleIn, description \in TaskDescriptionIn,
          task_list_id \in ListRefIn, assigned_user_id \in {None, Some(2)} :
            create_task(title, description, task_list_id, "medium", None, assigned_user_id)

DoUpdateTask ==
    \E task_id \in TaskIdIn, title \in OptionalOf(TitleIn),
       description \in {None, Some(<<>>)}, assigned_user_id \in {None, Some(2)} :
        update_task(task_id, title, description, None, None, assigned_user_id)

DoUpdateTaskStatus ==
    \E task_id \in TaskIdIn : update_task_status(task_id, "completed")

DoAssignTask ==
    \E task_id \in TaskIdIn, user_id \in {None, Some(0), Some(2)} :
        assign_task_to_user(task_id, user_id)

DoDeleteTask == \E task_id \in TaskIdIn : delete_task(task_id)

NextTasks == DoCreateTask \/ DoUpdateTask \/ DoUpdateTaskStatus \/ DoAssignTask \/ DoDeleteTask

SpecTasks == InitSeeded /\ [][NextTasks]_vars

\* ------------------------------------------------------------------------
\* C1: after any sequence of create_task, update_task, update_task_status,
\* assign_task_to_user and delete_task calls, no two stored tasks of the same
\* task list have the same title (compared case-sensitively after trimming),
\* and a create_task or update_task that would otherwise store a second task
\* with a title of its list is refused with DuplicateEntity and writes
\* nothing.
TitleTaken(title, task_list_id, self_id) ==
    \E t \in tasks : /\ t.id # self_id
                     /\ t.task_list_id = task_list_id
                     /\ strip(t.title) = strip(title)

TaskTitlesUniqueInList ==
    \A t1, t2 \in tasks :
        (t1 # t2 /\ t1.task_list_id = t2.task_list_id) => strip(t1.title) # strip(t2.title)

ListMissing(task_list_id) == ~\E l \in task_lists : l.id = task_list_id
UserMissing(user_id) == ~\E u \in users : u.id = user_id
Blank(s) == \A i \in 1..Len(s) : s[i] \in Whitespace

\* C6 as stated: create_task with a positive task_list_id that refers to no
\* stored task list fails with EntityNotFound, never with DuplicateEntity,
\* and stores no task -- whatever the other arguments are.
CreateTaskMissingListAlwaysNotFound ==
    [][(result'.op = "create_task" /\ result'.kind # "EntityNotFound") =>
         \A title \in TitleIn, description \in TaskDescriptionIn,
            task_list_id \in ListRefIn, a \in {None, Some(2)} :
              ~(/\ task_list_id > 0
                /\ ListMissing(task_list_id)
                /\ create_task(title, description, task_list_id, "medium", None, a))]_vars

\* C6 amended: create_task with a positive task_list_id that refers to no
\* stored task list stores no task and never fails with DuplicateEntity; it
\* fails with EntityNotFound (for the task list) when title and description
\* are non-blank, and with InvalidData when one of them is blank.
CreateTaskMissingList ==
    [][result'.op = "create_task" =>
         \A title \in TitleIn, description \in TaskDescriptionIn,
            task_list_id \in ListRefIn, a \in {None, Some(2)} :
              (/\ task_list_id > 0
               /\ ListMissing(task_list_id)
               /\ create_task(title, description, task_list_id, "medium", None, a))
              => /\ tasks' = tasks
                 /\ result'.kind # "DuplicateEntity"
                 /\ IF Blank(title) \/ Blank(description)
                    THEN result'.kind = "InvalidData"
                    ELSE result'.kind = "EntityNotFound" /\ result'.about = "task_list"]_vars

\* Tasks are stored (one titled "a") and a create_task naming a missing task
\* list was refused with EntityNotFound for the task list.
CreateTaskMissingListWitness ==
    /\ \E t \in tasks : t.title = <<"a">>
    /\ result.op = "create_task"
    /\ result.kind = "EntityNotFound"
    /\ result.about = "task_list"

\* C7: in create_task and update_task, when the supplied title collides with
\* another task of the same list and the supplied assigned_user_id refers to
\* no stored user, the call fails with EntityNotFound and not with
\* DuplicateEntity.
MissingUserPreferredOverDuplicateTitle ==
    [][/\ (result'.op = "create_task" /\ result'.kind # "EntityNotFound") =>
            \A title \in TitleIn, task_list_id \in ListRefIn :
               ~(/\ TitleTaken(title, task_list_id, 0)
                 /\ ~Blank(title)
                 /\ UserMissing(2)
                 /\ create_task(title, <<"d">>, task_list_id, "medium", None, Some(2)))
       /\ (result'.op = "update_task" /\ result'.kind # "EntityNotFound") =>
            \A task_id \in TaskIdIn, title \in TitleIn :
               ~(/\ \E t \in tasks : t.id = task_id /\ TitleTaken(title, t.task_list_id, task_id)
                 /\ ~Blank(title)
                 /\ UserMissing(2)
                 /\ update_task(task_id, Some(title), None, None, None, Some(2)))]_vars


\* ------------------------------------------------------------------------
\* Listing the tasks of a list, with completion statistics

RECURSIVE GCD(_, _)
GCD(a, b) == IF b = 0 THEN a ELSE GCD(b, a % b)

\* The float num / den, kept as the fraction in lowest terms
\* (25.0 is [num |-> 25, den |-> 1]); float rounding is not modelled.
Float(num, den) ==
    LET g == GCD(num, den) IN [num |-> num \div g, den |-> den \div g]

\* completed_tasks / total_tasks * 100 if total_tasks > 0 else 0.0
completion_percentage(all_tasks) ==
    LET total_tasks == Cardinality(all_tasks)
        completed_tasks == Cardinality({t \in all_tasks : t.status = "completed"})
    IN  IF total_tasks > 0 THEN Float(completed_tasks * 100, total_tasks) ELSE Float(0, 1)

\* TaskListUseCases.get_task_list_with_completion_stats
get_task_list_with_completion_stats(task_list_id) ==
    IF TaskListRepo_get_by_id(task_list_id) = None THEN
        Raised("TaskListNotFound", "task_list")
    ELSE
        LET task_list == Val(TaskListRepo_get_by_id(task_list_id))
            tasks_of_list == get_by_task_list_id(task_list_id)
        IN  Returned([task_list |-> task_list,
                      tasks |-> tasks_of_list,
                      completion_percentage |-> completion_percentage(tasks_of_list)])

\* task_list_use_cases.get_task_list_by_id(task_list_id), as the endpoints
\* call it: class TaskListUseCases defines get_task_list and no
\* get_task_list_by_id, so the attribute lookup raises AttributeError.
get_task_list_by_id(task_list_id) == Raised("AttributeError", "get_task_list_by_id")

\* except-clauses of the endpoints: exception kind -> HTTP status
HttpStatus(kind) ==
    CASE kind = "ok" -> "HTTP_200"
      [] kind = "EntityNotFound" -> "HTTP_404"
      [] kind = "DuplicateEntity" -> "HTTP_409"
      [] kind = "InvalidData" -> "HTTP_400"
      [] OTHER -> "HTTP_500"

\* GET /task-lists/{task_list_id}/tasks/ (app/api/tasks.py get_tasks_by_list)
get_tasks_by_list(task_list_id, task_status, priority, assigned_user_id) ==
    LET task_list == get_task_list_by_id(task_list_id) IN
    IF task_list.kind # "ok" THEN
        Raised(HttpStatus(task_list.kind), task_list.about)
    ELSE
        LET found == get_tasks_by_list_id(task_list_id, task_status, priority, assigned_user_id) IN
        IF found.kind # "ok" THEN
            Raised(HttpStatus(found.kind), found.about)
        ELSE
            LET all_tasks == get_tasks_by_list_id(task_list_id, None, None, None) IN
            IF all_tasks.kind # "ok" THEN
                Raised(HttpStatus(all_tasks.kind), all_tasks.about)
            ELSE
                [kind |-> "HTTP_200", about |-> "none",
                 value |-> [task_list_id |-> Val(task_list.value).id,
                            task_list_name |-> Val(task_list.value).name,
                            total_tasks |-> Cardinality(found.value),
                            completion_percentage |-> completion_percentage(all_tasks.value),
                            tasks |-> found.value]]

\* A read-only call: its outcome is recorded, the store is untouched.
Query(op, outcome) ==
    /\ result' = [op |-> op, kind |-> outcome.kind, about |-> outcome.about,
                  value |-> outcome.value]
    /\ UNCHANGED store
    /\ UNCHANGED aux

\* title of the i-th task a client names its tasks by
TitleFor(i) == [k \in 1..i |-> "a"]

\* (task_list_id, priority, assigned_user_id) of the tasks created
CreateRowIn == {<<1, "medium", None>>, <<1, "high", Some(1)>>, <<2, "medium", None>>}

\* (task_list_id, status, priority, assigned_user_id) of the listings requested
QueryIn == {<<1, None, None, None>>,
            <<1, Some("completed"), None, None>>,
            <<1, None, Some("high"), Some(1)>>,
            <<1, None, None, Some(2)>>,
            <<1, None, None, Some(0)>>,
            <<3, None, None, None>>}

DoCreateTaskRow ==
    \E row \in CreateRowIn :
        create_task(TitleFor(next_task_id), <<"d">>, row[1], row[2], None, row[3])

DoCompleteTask == \E task_id \in 1..MaxTasks : update_task_status(task_id, "completed")

DoGetTasksByListId ==
    \E q \in QueryIn :
        Query("get_tasks_by_list_id", get_tasks_by_list_id(q[1], q[2], q[3], q[4]))

DoGetTasksByList ==
    \E q \in QueryIn :
        Query("get_tasks_by_list", get_tasks_by_list(q[1], q[2], q[3], q[4]))

NextQuery == DoCreateTaskRow \/ DoCompleteTask \/ DoGetTasksByListId \/ DoGetTasksByList

SpecQuery == InitSeeded /\ [][NextQuery]_vars


\* ------------------------------------------------------------------------
StatusFilterIn == OptionalOf({"pending", "completed"})
PriorityFilterIn == OptionalOf({"high"})
UserFilterIn == {None, Some(0), Some(1), Some(2)}
StoredListIds == {l.id : l \in task_lists}

TasksOf(task_list_id) == {t \in tasks : t.task_list_id = task_list_id}

\* the tasks of list L that match every supplied filter
Matching(L, st, pr, au) ==
    {t \in TasksOf(L) :
        /\ (st # None => t.status = Val(st))
        /\ (pr # None => t.priority = Val(pr))
        /\ (au # None => t.assigned_user_id = au)}

\* p is completed / total * 100 over all tasks of list L (0.0 without tasks)
CorrectPercentage(L, p) ==
    LET total == Cardinality(TasksOf(L))
        completed == Cardinality({t \in TasksOf(L) : t.status = "completed"})
    IN  /\ IF total = 0 THEN p = [num |-> 0, den |-> 1]
           ELSE p.den > 0 /\ p.num * total = completed * 100 * p.den
        /\ (total = 4 /\ completed = 1) => p = [num |-> 25, den |-> 1]

\* C8: for every store state, every task list L and every combination of
\* status, priority and assigned_user_id filters, the listing of L answers
\* with the completion percentage completed / total * 100 over all tasks of
\* L, counted without any filter, and 0.0 when L has no task; 1 completed of
\* 4 is 25.0.  The same holds for get_task_list_with_completion_stats.
CompletionFromUnfiltered ==
    /\ \A L \in StoredListIds :
          LET u == get_task_list_with_completion_stats(L) IN
          u.kind = "ok" /\ CorrectPercentage(L, u.value.completion_percentage)
    /\ [][result'.op = "get_tasks_by_list" =>
            \A q \in QueryIn :
               (/\ ~ListMissing(q[1])
                /\ (q[4] = None \/ ~UserMissing(Val(q[4])))
                /\ Query("get_tasks_by_list", get_tasks_by_list(q[1], q[2], q[3], q[4])))
               => /\ result'.kind = "HTTP_200"
                  /\ CorrectPercentage(q[1], result'.value.completion_percentage)]_vars

\* C9: get_tasks_by_list_id on an existing list L returns exactly the stored
\* tasks of L that match every supplied filter; a filter that is not
\* supplied puts no constraint on its field (with no filter: all tasks of L).
\* The call returns whenever the assigned_user_id filter is absent or names a
\* stored user.
FilteredListingExact ==
    /\ \A L \in StoredListIds, st \in StatusFilterIn, pr \in PriorityFilterIn, au \in UserFilterIn :
          LET o == get_tasks_by_list_id(L, st, pr, au) IN
          IF au = None \/ ~UserMissing(Val(au))
          THEN o.kind = "ok" /\ o.value = Matching(L, st, pr, au)
          ELSE o.kind # "ok"
    /\ (result.op = "get_tasks_by_list_id" /\ result.kind = "ok") =>
          \E q \in QueryIn : result.value = Matching(q[1], q[2], q[3], q[4])

\* List 1 holds tasks of both priorities and a listing with filters returned
\* some of them, not all.
FilteredListingExactWitness ==
    /\ result.op = "get_tasks_by_list_id"
    /\ result.kind = "ok"
    /\ result.value # {}
    /\ result.value # TasksOf(1)
    /\ \A t \in result.value : t.task_list_id = 1 /\ t.priority = "high"
    /\ \E t \in TasksOf(1) : t.priority = "medium"

\* C10 as stated: get_tasks_by_list_id on an existing list with an
\* assigned_user_id filter that refers to no stored user fails with
\* EntityNotFound.
MissingUserFilterAlwaysNotFound ==
    [][(result'.op = "get_tasks_by_list_id" /\ result'.kind # "EntityNotFound") =>
         \A q \in QueryIn :
            ~(/\ ~ListMissing(q[1])
              /\ q[4] # None
              /\ UserMissing(Val(q[4]))
              /\ Query("get_tasks_by_list_id", get_tasks_by_list_id(q[1], q[2], q[3], q[4])))]_vars

\* C10 amended: get_tasks_by_list_id on an existing list with a positive
\* assigned_user_id filter that refers to no stored user fails with
\* EntityNotFound instead of returning an empty list; with an
\* assigned_user_id <= 0 it fails with InvalidData.
MissingUserFilterNotFound ==
    /\ \A L \in StoredListIds, st \in StatusFilterIn, pr \in PriorityFilterIn,
          au \in {Some(0), Some(1), Some(2)} :
          UserMissing(Val(au))
              => LET o == get_tasks_by_list_id(L, st, pr, au) IN
                 IF Val(au) > 0
                 THEN o.kind = "EntityNotFound" /\ o.about = "user"
                 ELSE o.kind = "InvalidData"
    /\ (result.op = "get_tasks_by_list_id" /\ result.kind = "ok") =>
          \E q \in QueryIn :
             /\ result.value = Matching(q[1], q[2], q[3], q[4])
             /\ (q[4] = None \/ ~UserMissing(Val(q[4])))

\* Tasks are stored in list 1 and a listing of it filtered by a missing user
\* was refused with EntityNotFound for the user.
MissingUserFilterNotFoundWitness ==
    /\ TasksOf(1) # {}
    /\ result.op = "get_tasks_by_list_id"
    /\ result.kind = "EntityNotFound"
    /\ result.about = "user"


\* ------------------------------------------------------------------------
\* Concurrent creates.  Each request runs its use case on its own database
\* session: first the checks of the use case (validation and existence
\* queries), later the INSERT and commit of repository.create.  Steps of
\* different requests interleave; the outcome of a request is kept in pc.
\* The store holds one task list (the state after create_task_list("X")).
Requests == 1..MaxRequests

RequestIn ==
    {[op |-> "create_task_list", name |-> n] : n \in {<<"X">>, <<"Y">>}}
    \cup {[op |-> "create_user", username |-> <<"b","o","b">>, email |-> <<"a","@","x">>],
          [op |-> "create_user", username |-> <<"b","o","b">>, email |-> <<"b","@","x">>],
          [op |-> "create_user", username |-> <<"a","m","y">>, email |-> <<"A","@","X">>]}
    \cup {[op |-> "create_task", title |-> t, task_list_id |-> 1] : t \in {<<"a">>, <<" ","a">>}}

InitRace ==
    /\ users = {}
    /\ task_lists = {[id |-> 1, name |-> <<"X">>, description |-> None]}
    /\ tasks = {}
    /\ next_user_id = 1
    /\ next_list_id = 2
    /\ next_task_id = 1
    /\ result = NoResult
    /\ pc = [r \in Requests |-> [at |-> "idle"]]
    /\ now = 0
    /\ tokens = {}
    /\ sent_emails = <<>>

\* request r has run the checks of its use case, with outcome checked
Checked(r, call, checked) ==
    /\ pc' = [pc EXCEPT ![r] =
                IF checked.kind = "ok"
                THEN [at |-> "insert", call |-> call, entity |-> checked.value]
                ELSE [at |-> "done", call |-> call, passed |-> FALSE, kind |-> checked.kind]]
    /\ UNCHANGED <<store, result, now, tokens, sent_emails>>

\* request r has left repository.create with outcome kind
Finished(r, kind) ==
    pc' = [pc EXCEPT ![r] = [at |-> "done", call |-> pc[r].call, passed |-> TRUE,
                             entity |-> pc[r].entity, kind |-> kind]]

CheckCreateTaskList(r) ==
    /\ pc[r].at = "idle"
    /\ \E call \in {c \in RequestIn : c.op = "create_task_list"} :
          Checked(r, call, create_task_list_check(call.name, None))

InsertCreateTaskList(r) ==
    /\ pc[r].at = "insert"
    /\ pc[r].call.op = "create_task_list"
    /\ UNCHANGED <<result, now, tokens, sent_emails>>
    /\ IF TaskListUniqueViolated(TaskListRow(pc[r].entity))
       THEN Finished(r, "IntegrityError") /\ UNCHANGED store
       ELSE InsertTaskList(TaskListRow(pc[r].entity)) /\ Finished(r, "ok")

CheckCreateUser(r) ==
    /\ pc[r].at = "idle"
    /\ \E call \in {c \in RequestIn : c.op = "create_user"} :
          Checked(r, call, create_user_check(call.username, call.email, <<"n">>, "active"))

InsertCreateUser(r) ==
    /\ pc[r].at = "insert"
    /\ pc[r].call.op = "create_user"
    /\ UNCHANGED <<result, now, tokens, sent_emails>>
    /\ IF UserUniqueViolated(UserRow(pc[r].entity))
       THEN Finished(r, "IntegrityError") /\ UNCHANGED store
       ELSE InsertUser(UserRow(pc[r].entity)) /\ Finished(r, "ok")

CheckCreateTask(r) ==
    /\ pc[r].at = "idle"
    /\ \E call \in {c \in RequestIn : c.op = "create_task"} :
          Checked(r, call, create_task_check(call.title, <<"d">>, call.task_list_id,
                                             "medium", None, None))

InsertCreateTask(r) ==
    /\ pc[r].at = "insert"
    /\ pc[r].call.op = "create_task"
    /\ UNCHANGED <<result, now, tokens, sent_emails>>
    /\ InsertTask(TaskRow(pc[r].entity))
    /\ Finished(r, "ok")

NextRace ==
    \E r \in Requests :
        \/ CheckCreateTaskList(r)
        \/ InsertCreateTaskList(r)
        \/ CheckCreateUser(r)
        \/ InsertCreateUser(r)
        \/ CheckCreateTask(r)
        \/ InsertCreateTask(r)

SpecRace == InitRace /\ [][NextRace]_vars

\* requests that have passed the checks of their use case
PassedCheck(r) == pc[r].at = "insert" \/ (pc[r].at = "done" /\ pc[r].passed)

\* two creates that ask for the same task-list name, username or email
SameKey(r1, r2) ==
    /\ pc[r1].call.op = pc[r2].call.op
    /\ CASE pc[r1].call.op = "create_task_list" ->
                pc[r1].entity.name = pc[r2].entity.name
         [] pc[r1].call.op = "create_user" ->
                \/ pc[r1].entity.username = pc[r2].entity.username
                \/ pc[r1].entity.email = pc[r2].entity.email
         [] OTHER -> FALSE

\* C4: when concurrent create_task_list requests with the same name, or
\* create_user requests with the same username or email, have all passed the
\* existence check, the store still never holds two task lists with one name
\* or two users with one username or email: of two such requests at most one
\* inserts, and a request that passed the check and does not insert ends with
\* the storage layer's integrity error (an internal error, HTTP 500), not
\* with DuplicateEntity.
RaceBackstop ==
    /\ \A l1, l2 \in task_lists : l1 # l2 => l1.name # l2.name
    /\ \A u1, u2 \in users :
          u1 # u2 => u1.username # u2.username /\ u1.email # u2.email
    /\ \A r1, r2 \in Requests :
          (/\ r1 # r2
           /\ pc[r1].at = "done" /\ pc[r1].passed
           /\ pc[r2].at = "done" /\ pc[r2].passed
           /\ SameKey(r1, r2))
          => /\ ~(pc[r1].kind = "ok" /\ pc[r2].kind = "ok")
             /\ \A r \in {r1, r2} :
                   pc[r].kind # "ok" => /\ pc[r].kind = "IntegrityError"
                                        /\ HttpStatus(pc[r].kind) = "HTTP_500"

\* Two create_task_list requests for the name "Y" both passed the existence
\* check; one inserted the list, the other ended with the integrity error.
RaceBackstopWitness ==
    \E r1, r2 \in Requests :
        /\ r1 # r2
        /\ pc[r1].at = "done" /\ pc[r1].passed
        /\ pc[r2].at = "done" /\ pc[r2].passed
        /\ pc[r1].call = [op |-> "create_task_list", name |-> <<"Y">>]
        /\ pc[r2].call = pc[r1].call
        /\ pc[r1].kind = "ok"
        /\ pc[r2].kind = "IntegrityError"
        /\ Cardinality({l \in task_lists : l.name = <<"Y">>}) = 1

\* C5: when two create_task requests with the same title and task list run
\* concurrently, the store never holds two tasks of one list with the same
\* title.
RaceTaskTitlesUnique ==
    \A t1, t2 \in tasks :
        (t1 # t2 /\ t1.task_list_id = t2.task_list_id) => t1.title # t2.title


\* ------------------------------------------------------------------------
\* Status changes and assignments, one call at a time, on the seeded store.

\* values of TaskStatus, as the endpoints document them
TaskStatus == {"pending", "in_progress", "completed", "cancelled"}

FlowTaskIdIn == 0..(MaxFlowTasks + 1)
FlowUserIn == {None, Some(0), Some(1), Some(2)}

DoCreateFlowTask ==
    /\ next_task_id <= MaxFlowTasks
    /\ \E assigned_user_id \in {None, Some(1)} :
          create_task(TitleFor(next_task_id), <<"d">>, 1, "medium", None, assigned_user_id)

DoSetTaskStatus ==
    \E task_id \in FlowTaskIdIn, status \in TaskStatus : update_task_status(task_id, status)

DoAssignFlowTask ==
    \E task_id \in FlowTaskIdIn, user_id \in FlowUserIn : assign_task_to_user(task_id, user_id)

NextFlow == DoCreateFlowTask \/ DoSetTaskStatus \/ DoAssignFlowTask

SpecFlow == InitSeeded /\ [][NextFlow]_vars

TaskExists(task_id) == \E t \in tasks : t.id = task_id

\* C11 as stated: assign_task_to_user(t, u) on a stored task t with u
\* referring to no stored user fails with EntityNotFound and leaves every
\* stored task unchanged.
AssignMissingUserAlwaysNotFound ==
    [][result'.op = "assign_task_to_user" =>
         \A task_id \in FlowTaskIdIn, u \in {Some(0), Some(1), Some(2)} :
            (/\ TaskExists(task_id)
             /\ UserMissing(Val(u))
             /\ assign_task_to_user(task_id, u))
            => result'.kind = "EntityNotFound" /\ tasks' = tasks]_vars

\* C11 amended: assign_task_to_user(t, u) on a stored task t with a positive
\* u referring to no stored user fails with EntityNotFound for the user; with
\* u <= 0 it fails with InvalidData; in both cases assigned_user_id of t and
\* every other stored field of every task are unchanged.
AssignMissingUser ==
    [][result'.op = "assign_task_to_user" =>
         \A task_id \in FlowTaskIdIn, u \in {Some(0), Some(1), Some(2)} :
            (/\ TaskExists(task_id)
             /\ UserMissing(Val(u))
             /\ assign_task_to_user(task_id, u))
            => /\ tasks' = tasks
               /\ IF Val(u) > 0
                  THEN result'.kind = "EntityNotFound" /\ result'.about = "user"
                  ELSE result'.kind = "InvalidData"]_vars

\* A task is assigned to user 1 and assigning a task to a missing user was
\* refused with EntityNotFound for the user.
AssignMissingUserWitness ==
    /\ \E t \in tasks : t.assigned_user_id = Some(1)
    /\ result.op = "assign_task_to_user"
    /\ result.kind = "EntityNotFound"
    /\ result.about = "user"

Tick ==
    /\ now + TickMinutes <= MaxTime
    /\ now' = now + TickMinutes
    /\ UNCHANGED <<store, result, pc, tokens, sent_emails>>

DueDateIn == {Some(0), Some(TickMinutes), Some(MaxTime)}

DoCreateDatedTask ==
    /\ next_task_id <= MaxFlowTasks
    /\ \E due_date \in DueDateIn :
          create_task(TitleFor(next_task_id), <<"d">>, 1, "medium", due_date, None)

DoUpdateDueDate ==
    \E task_id \in FlowTaskIdIn, due_date \in DueDateIn :
        update_task(task_id, None, None, None, due_date, None)

NextDue == Tick \/ DoCreateDatedTask \/ DoUpdateDueDate

SpecDue == InitSeeded /\ [][NextDue]_vars

\* C13: a create_task or update_task (of a stored task) that supplies a
\* due_date earlier than the current UTC time fails with InvalidData and
\* writes nothing to the store.
PastDueDateRefused ==
    [][result'.op \in {"create_task", "update_task"} =>
         \A due_date \in DueDateIn :
            (/\ Val(due_date) < now
             /\ \/ create_task(TitleFor(next_task_id), <<"d">>, 1, "medium", due_date, None)
                \/ \E task_id \in FlowTaskIdIn :
                      /\ TaskExists(task_id)
                      /\ update_task(task_id, None, None, None, due_date, None))
            => result'.kind = "InvalidData" /\ tasks' = tasks]_vars

\* ------------------------------------------------------------------------
\* JWT handling (app/auth/jwt_handler.py)
\* A token is [form, key, sub, exp]: whether it has the shape of a JWT, the
\* key it was signed with, the optional "sub" claim (a string) and the
\* optional "exp" claim (minutes).

SECRET_KEY == "SECRET_KEY"
ACCESS_TOKEN_EXPIRE_MINUTES == 30

Digit == <<"0", "1", "2", "3", "4", "5", "6", "7", "8", "9">>
DigitValue(c) == CHOOSE d \in 0..9 : Digit[d + 1] = c
IsDigit(c) == \E d \in 0..9 : Digit[d + 1] = c

\* str(n) of a non-negative int
RECURSIVE str(_)
str(n) == IF n < 10 THEN <<Digit[n + 1]>> ELSE Append(str(n \div 10), Digit[(n % 10) + 1])

RECURSIVE DecimalValue(_)
DecimalValue(digits) ==
    IF digits = <<>> THEN 0
    ELSE 10 * DecimalValue(SubSeq(digits, 1, Len(digits) - 1)) + DigitValue(digits[Len(digits)])

\* int(s): surrounding whitespace and one sign are allowed; None is ValueError
int(s) ==
    LET body == strip(s)
        signed == body # <<>> /\ body[1] \in {"+", "-"}
        digits == IF signed THEN Tail(body) ELSE body
    IN  IF digits = <<>> \/ \E i \in 1..Len(digits) : ~IsDigit(digits[i]) THEN None
        ELSE IF signed /\ body[1] = "-" THEN Some(0 - DecimalValue(digits))
        ELSE Some(DecimalValue(digits))

\* expires_delta is Optional minutes; a zero timedelta is falsy
create_access_token(data, expires_delta) ==
    [form |-> "jwt", key |-> SECRET_KEY, sub |-> data.sub,
     exp |-> Some(now + (IF TruthyInt(expires_delta) THEN Val(expires_delta)
                         ELSE ACCESS_TOKEN_EXPIRE_MINUTES))]

\* jwt.decode(token, SECRET_KEY, algorithms=[ALGORITHM]): the payload, or
\* None for JWTError (not a JWT, signature does not verify, exp < now)
jwt_decode_unexpired(token) ==
    IF token.form # "jwt" \/ token.key # SECRET_KEY THEN None
    ELSE Some([sub |-> token.sub, exp |-> token.exp])
jwt_decode(token) ==
    IF token.form # "jwt" \/ token.key # SECRET_KEY THEN None
    ELSE IF token.exp # None /\ Val(token.exp) < now THEN None
    ELSE Some([sub |-> token.sub, exp |-> token.exp])

decode_access_token(token) ==
    IF jwt_decode(token) = None THEN Raised("HTTP_401", "Token invalido")
    ELSE Returned(jwt_decode(token))

get_user_id_from_token(token) ==
    LET payload == decode_access_token(token) IN
    IF payload.kind # "ok" THEN payload
    ELSE LET user_id_str == Val(payload.value).sub IN
         IF user_id_str = None THEN Raised("HTTP_401", "Token invalido: falta user_id")
         ELSE IF int(Val(user_id_str)) = None THEN
             Raised("HTTP_401", "Token invalido: user_id no valido")
         ELSE Returned(int(Val(user_id_str)))

\* ------------------------------------------------------------------------
\* Authentication dependencies (app/auth/dependencies.py)
\* authorization is the Optional bearer token of the Authorization header.

\* _to_domain: the entity built from a row; password_hash is not passed on
UserRepo_to_domain(db_user) ==
    [id |-> db_user.id, username |-> db_user.username, email |-> db_user.email,
     full_name |-> db_user.full_name, status |-> db_user.status,
     password_hash |-> None]

get_user_by_id(user_id) ==
    IF user_id <= 0 THEN Raised("InvalidData", "user_id")
    ELSE IF UserRepo_get_by_id(user_id) = None THEN Raised("EntityNotFound", "user")
    ELSE Returned(Some(UserRepo_to_domain(Val(UserRepo_get_by_id(user_id)))))

\* HTTPBearer(): a request without credentials is answered 403
security_unauthorized(authorization) ==
    IF authorization = None THEN Raised("HTTP_401", "Not authenticated")
    ELSE Returned(authorization)
security(authorization) ==
    IF authorization = None THEN Raised("HTTP_403", "Not authenticated")
    ELSE Returned(authorization)

get_current_user_id(authorization) ==
    LET credentials == security(authorization) IN
    IF credentials.kind # "ok" THEN credentials
    ELSE get_user_id_from_token(Val(credentials.value))

get_current_user_unchecked_user(authorization) ==
    LET user_id == get_current_user_id(authorization) IN
    IF user_id.kind # "ok" THEN user_id
    ELSE Returned(Some([id |-> Val(user_id.value)]))
get_current_user(authorization) ==
    LET user_id == get_current_user_id(authorization) IN
    IF user_id.kind # "ok" THEN user_id
    ELSE IF get_user_by_id(Val(user_id.value)).kind # "ok" THEN
        Raised("HTTP_401", "Usuario no encontrado")
    ELSE get_user_by_id(Val(user_id.value))

\* ------------------------------------------------------------------------
\* Login (app/api/auth.py)

\* bcrypt: a hash verifies exactly the password it was made from
hash_password(password) == [hashed |-> password]
verify_password(plain_password, hashed_password) == hashed_password.hashed = plain_password

\* UserUseCases has no method authenticate_user
authenticate_user(identifier) == Raised("AttributeError", "authenticate_user")

\* POST /auth/login: the response; a 200 carries the access token
login(username, password) ==
    LET user == authenticate_user(username) IN
    IF user.kind # "ok" THEN Raised("HTTP_500", "Error interno del servidor")
    ELSE IF user.value = None \/ Val(user.value).password_hash = None THEN
        Raised("HTTP_401", "Usuario o contrasena incorrectos")
    ELSE IF ~verify_password(password, Val(Val(user.value).password_hash)) THEN
        Raised("HTTP_401", "Usuario o contrasena incorrectos")
    ELSE [kind |-> "HTTP_200", about |-> "none",
          value |-> Some([access_token |->
                              create_access_token([sub |-> Some(str(Val(user.value).id))], None),
                          user |-> Val(user.value)])]

\* ------------------------------------------------------------------------
\* Tokens in use: handed out for stored users, and presented by clients.

Token(form, key, sub, exp) == [form |-> form, key |-> key, sub |-> sub, exp |-> exp]

\* tokens a client can make up, or has kept from elsewhere
TokenIn ==
    {Token("jwt", "other-key", Some(<<"1">>), Some(MaxTime)),
     Token("not-a-jwt", SECRET_KEY, Some(<<"1">>), Some(MaxTime)),
     Token("jwt", SECRET_KEY, Some(<<"1">>), Some(TickMinutes)),
     Token("jwt", SECRET_KEY, Some(<<"1">>), None),
     Token("jwt", SECRET_KEY, None, Some(MaxTime)),
     Token("jwt", SECRET_KEY, Some(<<>>), Some(MaxTime)),
     Token("jwt", SECRET_KEY, Some(<<"x">>), Some(MaxTime)),
     Token("jwt", SECRET_KEY, Some(<<"1", "x">>), Some(MaxTime)),
     Token("jwt", SECRET_KEY, Some(<<" ", "1">>), Some(MaxTime)),
     Token("jwt", SECRET_KEY, Some(<<"-", "1">>), Some(MaxTime)),
     Token("jwt", SECRET_KEY, Some(<<"0">>), Some(MaxTime)),
     Token("jwt", SECRET_KEY, Some(<<"0", "2">>), Some(MaxTime))}

IssuedTokens == {issued.token : issued \in tokens}

AuthorizationIn == OptionalOf(TokenIn \cup IssuedTokens)

PasswordOf(c) == [i \in 1..6 |-> c]
PasswordIn == {PasswordOf("p"), PasswordOf("q")}

\* create_access_token(data={"sub": str(user.id)}) for a stored user
DoCreateAccessToken ==
    /\ Cardinality(tokens) < MaxTokens
    /\ \E user \in users :
          /\ tokens' = tokens \cup
                {[token |-> create_access_token([sub |-> Some(str(user.id))], None),
                  issued_to |-> user.id, by |-> "create_access_token"]}
          /\ Return("create_access_token", Some(user.id))
    /\ UNCHANGED <<store, pc, now, sent_emails>>

\* a request to an endpoint that only resolves the current user (GET /auth/me)
DoGetCurrentUser ==
    \E authorization \in AuthorizationIn :
        Query("get_current_user", get_current_user(authorization))

\* a request to POST /auth/login; the token of a 200 is handed out
LoginRequest(username, password) ==
        /\ result' = [op |-> "login", kind |-> login(username, password).kind,
                      about |-> login(username, password).about,
                      value |-> login(username, password).value]
        /\ tokens' = IF login(username, password).kind = "HTTP_200"
                        THEN tokens \cup
                             {[token |-> Val(login(username, password).value).access_token,
                               issued_to |-> Val(login(username, password).value).user.id,
                               by |-> "login"]}
                        ELSE tokens
        /\ UNCHANGED <<store, pc, now, sent_emails>>

DoLogin ==
    \E username \in {<<"b","o","b">>, <<"a","@","x">>, <<"c","a","l">>}, password \in PasswordIn :
        LoginRequest(username, password)

DoCreateSecondUser == create_user(<<"c","a","l">>, <<"c","@","x">>, <<"n">>, "active")

DoDeleteStoredUser == \E user_id \in 1..MaxUsers : delete_user(user_id)

NextAuth ==
    \/ Tick
    \/ DoCreateAccessToken
    \/ DoGetCurrentUser
    \/ DoLogin
    \/ DoCreateSecondUser
    \/ DoDeleteStoredUser

SpecAuth == InitSeeded /\ [][NextAuth]_vars

\* C14: login answers with a token or refuses the credentials with 401, and
\* a token issued by login for user u at time t is accepted by
\* get_current_user and resolves to exactly user u at every time before
\* t plus ACCESS_TOKEN_EXPIRE_MINUTES, as long as u is still stored.
LoginTokenAccepted ==
    /\ [](\A issued \in tokens :
            (/\ issued.by = "login"
             /\ UserRepo_get_by_id(issued.issued_to) # None
             /\ now < Val(issued.token.exp))
            => get_current_user(Some(issued.token)) = get_user_by_id(issued.issued_to))
    /\ [][result'.op = "login" => result'.kind \in {"HTTP_200", "HTTP_401"}]_vars

\* the subject is not an optionally signed run of digits
NotAnInteger(sub) ==
    LET body == strip(sub) IN
    \/ body = <<>>
    \/ body \in {<<"+">>, <<"-">>}
    \/ \E i \in 1..Len(body) : ~IsDigit(body[i]) /\ ~(i = 1 /\ body[1] \in {"+", "-"})

BadToken(token) ==
    \/ token.key # SECRET_KEY
    \/ token.form # "jwt"
    \/ token.exp # None /\ Val(token.exp) < now
    \/ token.sub = None
    \/ token.sub # None /\ NotAnInteger(Val(token.sub))

\* C15: get_current_user rejects with 401, and resolves no user for, every
\* token whose signature is invalid, that is malformed, whose expiry is in
\* the past, that lacks a subject claim, or whose subject is not an integer.
BadTokensRejected ==
    \A token \in TokenIn \cup IssuedTokens :
        BadToken(token) =>
            /\ get_current_user(Some(token)).kind = "HTTP_401"
            /\ get_current_user(Some(token)).value = None

\* user 1 is stored, a token handed out for a stored user has expired, and
\* a request has just been refused because the subject of its token is not
\* an integer
BadTokensRejectedWitness ==
    /\ result.op = "get_current_user"
    /\ result.kind = "HTTP_401"
    /\ result.about = "Token invalido: user_id no valido"
    /\ \E issued \in tokens :
          /\ Val(issued.token.exp) < now
          /\ UserRepo_get_by_id(issued.issued_to) # None

create_user_parameters == {"username", "email", "full_name", "status"}

\* POST /auth/register: RegisterRequest is validated, then create_user is
\* called with the keyword password_hash
register(username, email, full_name, password) ==
    IF Len(username) < 3 \/ Len(full_name) < 1 \/ Len(password) < 6 THEN
        Query("auth.register", Raised("HTTP_422", "RegisterRequest"))
    ELSE IF ~({"username", "email", "full_name", "password_hash"} \subseteq create_user_parameters) THEN
        \* TypeError, caught by except Exception
        Query("auth.register", Raised("HTTP_500", "Error interno del servidor"))
    ELSE
        LET checked == create_user_check(username, email, full_name, "active") IN
        IF checked.kind = "DuplicateEntity" THEN
            Query("auth.register", Raised("HTTP_409", checked.about))
        ELSE IF checked.kind # "ok" \/ UserUniqueViolated(UserRow(checked.value)) THEN
            Query("auth.register", Raised("HTTP_500", "Error interno del servidor"))
        ELSE
            /\ InsertUser(UserRow(checked.value))
            /\ result' = [op |-> "auth.register", kind |-> "HTTP_201", about |-> "none",
                          value |-> Some(UserRepo_to_domain(UserRow(checked.value)))]
            /\ UNCHANGED aux

\* UserUseCases has no method update_user_password
update_user_password(user_id, new_password_hash) ==
    Raised("AttributeError", "update_user_password")

\* POST /auth/change-password, once get_current_user has resolved current_user
change_password(current_user, current_password, new_password) ==
    IF Len(new_password) < 6 THEN Raised("HTTP_422", "ChangePasswordRequest")
    ELSE IF \/ current_user.password_hash = None
            \/ ~verify_password(current_password, Val(current_user.password_hash)) THEN
        Raised("HTTP_400", "Contrasena actual incorrecta")
    ELSE IF update_user_password(current_user.id, hash_password(new_password)).kind # "ok" THEN
        Raised("HTTP_500", "Error interno del servidor")
    ELSE [kind |-> "HTTP_200", about |-> "none",
          value |-> Some("Contrasena actualizada exitosamente")]

\* ------------------------------------------------------------------------
\* UserUseCases lookups behind /api/v1/users (app/api/users.py)

get_user_by_username(username) ==
    IF username = <<>> \/ Len(strip(username)) = 0 THEN Raised("InvalidData", "username")
    ELSE IF {u \in users : u.username = strip(username)} = None THEN
        Raised("EntityNotFound", "user")
    ELSE Returned(Some(UserRepo_to_domain(Val({u \in users : u.username = strip(username)}))))

get_user_by_email(email) ==
    IF email = <<>> \/ ~Contains(email, "@") THEN Raised("InvalidData", "email")
    ELSE IF {u \in users : u.email = lower(strip(email))} = None THEN
        Raised("EntityNotFound", "user")
    ELSE Returned(Some(UserRepo_to_domain(Val({u \in users : u.email = lower(strip(email))}))))

get_all_users(status) ==
    Returned(Some({UserRepo_to_domain(u) :
                      u \in {v \in users : status = None \/ v.status = Val(status)}}))

\* ------------------------------------------------------------------------
\* The routers: which endpoints declare Depends(get_current_user).

TaskEndpoints ==
    {"tasks.create_task", "tasks.create_task_direct", "tasks.get_tasks_by_list_direct",
     "tasks.get_task_direct", "tasks.update_task_direct", "tasks.update_task_status_direct",
     "tasks.assign_task_to_user_direct", "tasks.delete_task_direct",
     "tasks.get_tasks_by_user_direct", "tasks.get_tasks_by_list", "tasks.get_task",
     "tasks.update_task", "tasks.update_task_status", "tasks.assign_task_to_user",
     "tasks.delete_task", "tasks.get_tasks_by_user"}

TaskListEndpoints ==
    {"task_lists.create_task_list", "task_lists.get_all_task_lists",
     "task_lists.get_task_list", "task_lists.update_task_list",
     "task_lists.delete_task_list"}

UserEndpoints ==
    {"users.list_users", "users.get_user", "users.get_user_by_username",
     "users.get_user_by_email", "users.update_user", "users.deactivate_user",
     "users.activate_user", "users.delete_user"}

AuthEndpoints == {"auth.change_password", "auth.get_current_user_info"}

Endpoints == TaskEndpoints \cup TaskListEndpoints \cup UserEndpoints \cup AuthEndpoints

Dependencies(endpoint) ==
    IF endpoint \in TaskEndpoints \cup TaskListEndpoints \cup AuthEndpoints
        THEN {"get_current_user"}
        ELSE {}

\* the response a users endpoint makes of a use case outcome
users_response(outcome) ==
    IF outcome.kind = "ok" THEN [kind |-> "HTTP_200", about |-> "none", value |-> outcome.value]
    ELSE Raised(HttpStatus(outcome.kind), outcome.about)

\* the endpoint function, called once its dependencies are resolved
Handler(endpoint, authorization, request) ==
    CASE endpoint = "users.list_users" ->
            Query(endpoint, users_response(get_all_users(None)))
      [] endpoint = "users.get_user" ->
            Query(endpoint, users_response(get_user_by_id(request.user_id)))
      [] endpoint = "users.get_user_by_username" ->
            Query(endpoint, users_response(get_user_by_username(<<"b","o","b">>)))
      [] endpoint = "users.get_user_by_email" ->
            Query(endpoint, users_response(get_user_by_email(<<"a","@","x">>)))
      [] endpoint = "users.update_user" ->
            update_user(request.user_id, None, None, Some(<<"m">>), None)
      [] endpoint = "users.deactivate_user" ->
            update_user(request.user_id, None, None, None, Some("inactive"))
      [] endpoint = "users.activate_user" ->
            update_user(request.user_id, None, None, None, Some("active"))
      [] endpoint = "users.delete_user" ->
            delete_user(request.user_id)
      [] endpoint = "auth.get_current_user_info" ->
            Query(endpoint, [kind |-> "HTTP_200", about |-> "none",
                             value |-> get_current_user(authorization).value])
      [] endpoint = "auth.change_password" ->
            Query(endpoint, change_password(Val(get_current_user(authorization).value),
                                            request.current_password, request.new_password))

HandledEndpoints == UserEndpoints \cup AuthEndpoints

\* a request to an endpoint: an HTTPException of a dependency is the response
Request(endpoint, authorization, request) ==
    IF "get_current_user" \in Dependencies(endpoint)
       /\ get_current_user(authorization).kind # "ok"
    THEN Query(endpoint, get_current_user(authorization))
    ELSE Handler(endpoint, authorization, request)

\* the path and body parameters the endpoint function reads
RequestsOf(endpoint) ==
    IF endpoint \in {"users.get_user", "users.update_user", "users.deactivate_user",
                     "users.activate_user", "users.delete_user"}
        THEN [user_id : 1..MaxUsers]
    ELSE IF endpoint = "auth.change_password"
        THEN [current_password : PasswordIn, new_password : PasswordIn \cup {<<"q">>}]
    ELSE {[body |-> "none"]}

GateAuthorizationIn ==
    {None, Some(Token("jwt", "other-key", Some(<<"1">>), Some(MaxTime)))}
        \cup {Some(token) : token \in IssuedTokens}

\* requests that pass the dependencies are followed into the endpoints of
\* HandledEndpoints; every endpoint receives the requests its dependencies refuse
DoRequest ==
    \E endpoint \in Endpoints, authorization \in GateAuthorizationIn :
      \E request \in RequestsOf(endpoint) :
        /\ \/ endpoint \in HandledEndpoints
           \/ get_current_user(authorization).kind # "ok"
        /\ Request(endpoint, authorization, request)

RegisterIn ==
    [username : {<<"b","o","b">>, <<"c","a","l">>, <<"c","a">>},
     email : {<<"a","@","x">>, <<"c","@","x">>},
     password : PasswordIn]

DoRegister ==
    \E request \in RegisterIn :
        register(request.username, request.email, <<"n">>, request.password)

NextGate ==
    \/ DoCreateAccessToken
    \/ DoRequest
    \/ DoRegister
    \/ DoLogin

SpecGate == InitSeeded /\ [][NextGate]_vars

\* C17: every task endpoint, every task-list endpoint, /auth/me and
\* /auth/change-password answers a request that carries no Authorization
\* header with 403 and performs no read or write of users, task lists or
\* tasks.
NoCredentialsForbidden ==
    [][\A endpoint \in TaskEndpoints \cup TaskListEndpoints \cup AuthEndpoints :
          \A request \in RequestsOf(endpoint) :
            Request(endpoint, None, request) =>
                /\ result'.kind = "HTTP_403"
                /\ result'.value = None
                /\ store' = store]_vars

\* a task endpoint has just refused a request with 403 while users, task
\* lists and a token handed out for a stored user exist
NoCredentialsForbiddenWitness ==
    /\ result.op \in TaskEndpoints
    /\ result.kind = "HTTP_403"
    /\ users # {}
    /\ task_lists # {}
    /\ \E issued \in tokens : UserRepo_get_by_id(issued.issued_to) # None

\* C18: no stored user, task list or task is read or changed by a request
\* that did not first resolve a valid bearer token to an existing user,
\* register and login apart; this includes the user administration
\* operations (list, get by id, username or email, update, activate,
\* deactivate, delete).
NoAccessWithoutCurrentUser ==
    [][\/ store' = store /\ result'.value = None
       \/ ~\E endpoint \in Endpoints, authorization \in GateAuthorizationIn :
             \E request \in RequestsOf(endpoint) :
               /\ get_current_user(authorization).kind # "ok"
               /\ Request(endpoint, authorization, request)]_vars

\* C19: register(username, email, full_name, password) succeeds on a store
\* with no colliding user, and after it login(username, password) and
\* login(email, password) both succeed and issue a token whose subject is
\* the new user's id, while login with any other password fails with 401.
RegisterThenLogin ==
    [][\A request \in RegisterIn :
          (/\ Len(request.username) >= 3
           /\ ~exists_by_username(request.username, None)
           /\ ~exists_by_email(request.email, None)
           /\ register(request.username, request.email, <<"n">>, request.password))
          => /\ result'.kind = "HTTP_201"
             /\ \A identifier \in {request.username, request.email}, password \in PasswordIn :
                   IF password = request.password
                   THEN /\ login(identifier, password)'.kind = "HTTP_200"
                        /\ Val(login(identifier, password)'.value).access_token.sub
                              = Some(str(Val(result'.value).id))
                   ELSE login(identifier, password)'.kind = "HTTP_401"]_vars

\* C20: a user whose token get_current_user accepts has a current password
\* p; a change_password request of that user with p and a new password q
\* different from p succeeds, and after it login with q succeeds and login
\* with p fails with 401.
ChangePasswordThenLogin ==
    /\ [][\A authorization \in GateAuthorizationIn,
            request \in RequestsOf("auth.change_password") :
             (/\ get_current_user(authorization).kind = "ok"
              /\ Request("auth.change_password", authorization, request))
             => \E p \in PasswordIn : \A q \in PasswordIn \ {p} :
                   change_password(Val(get_current_user(authorization).value), p, q).kind
                       = "HTTP_200"]_vars
    /\ [][\A authorization \in GateAuthorizationIn,
            request \in RequestsOf("auth.change_password") :
             (/\ request.new_password # request.current_password
              /\ Request("auth.change_password", authorization, request)
              /\ result'.kind = "HTTP_200")
             => LET username == Val(get_current_user(authorization).value).username IN
                /\ login(username, request.new_password)'.kind = "HTTP_200"
                /\ login(username, request.current_password)'.kind = "HTTP_401"]_vars

\* ------------------------------------------------------------------------
\* Task list names at the boundary

\* C21: create_task_list, and update_task_list that renames a list, with a
\* name already used by another stored task list fails with the
\* DuplicateEntity error kind, which the boundary maps to 409, and changes
\* no stored task list.
DuplicateTaskListNameRefused ==
    [][\A name \in NameIn, description \in OptionalOf(DescriptionIn) :
          /\ (/\ exists_by_name(name, None)
              /\ create_task_list(name, description))
             => /\ result'.kind = "DuplicateEntity"
                /\ HttpStatus(result'.kind) = "HTTP_409"
                /\ task_lists' = task_lists
          /\ \A task_list_id \in TaskListIdIn :
                (/\ \E l \in task_lists : l.id # task_list_id /\ l.name = name
                 /\ TaskListRepo_get_by_id(task_list_id) # None
                 /\ update_task_list(task_list_id, Some(name), description))
                => /\ result'.kind = "DuplicateEntity"
                   /\ HttpStatus(result'.kind) = "HTTP_409"
                   /\ task_lists' = task_lists]_vars

\* ------------------------------------------------------------------------
\* Tasks addressed through their task list
\* (/task-lists/{task_list_id}/tasks/{task_id}, app/api/tasks.py)

\* The first statements of every such endpoint, inside its try block: the
\* task is read, and a task of another list raises HTTPException(404).  The
\* outcome is the exception the except clauses of the endpoint then see.
existing_task(task_list_id, task_id) ==
    LET found == get_task_by_id(task_id) IN
    IF found.kind # "ok" THEN found
    ELSE IF Val(found.value).task_list_id # task_list_id THEN
        Raised("HTTPException", "task_list_id")
    ELSE found

\* The except clauses of an endpoint: only EntityNotFoundException,
\* DuplicateEntityException and InvalidDataException are answered with their
\* own status; every other exception raised in the try block, an
\* HTTPException included, is answered by `except Exception` with 500.
\* delete_task has no clause for InvalidDataException, update_task alone
\* has one for DuplicateEntityException.
response_status(endpoint, kind) ==
    IF kind = "InvalidData" /\ endpoint = "tasks.delete_task" THEN "HTTP_500"
    ELSE IF kind = "DuplicateEntity" /\ endpoint # "tasks.update_task" THEN "HTTP_500"
    ELSE HttpStatus(kind)

\* GET /task-lists/{task_list_id}/tasks/{task_id}
tasks_get_task(task_list_id, task_id) ==
    LET task_entity == existing_task(task_list_id, task_id) IN
    IF task_entity.kind # "ok" THEN
        Query("tasks.get_task", task_entity)
    ELSE
        LET assigned_user ==
                IF TruthyInt(Val(task_entity.value).assigned_user_id)
                   /\ get_user_by_id(Val(Val(task_entity.value).assigned_user_id)).kind = "ok"
                THEN get_user_by_id(Val(Val(task_entity.value).assigned_user_id)).value
                ELSE None
        IN  Query("tasks.get_task",
                  Returned(Some([task |-> Val(task_entity.value),
                                 assigned_user |-> assigned_user])))

\* PUT /task-lists/{task_list_id}/tasks/{task_id}
tasks_update_task(task_list_id, task_id, title, description, priority, due_date, assigned_user_id) ==
    IF existing_task(task_list_id, task_id).kind # "ok" THEN
        Query("tasks.update_task", existing_task(task_list_id, task_id))
    ELSE
        update_task(task_id, title, description, priority, due_date, assigned_user_id)

\* PATCH /task-lists/{task_list_id}/tasks/{task_id}/status
tasks_update_task_status(task_list_id, task_id, status) ==
    IF existing_task(task_list_id, task_id).kind # "ok" THEN
        Query("tasks.update_task_status", existing_task(task_list_id, task_id))
    ELSE
        update_task_status(task_id, status)

\* PATCH /task-lists/{task_list_id}/tasks/{task_id}/assign
tasks_assign_task_to_user(task_list_id, task_id, assigned_user_id) ==
    IF existing_task(task_list_id, task_id).kind # "ok" THEN
        Query("tasks.assign_task_to_user", existing_task(task_list_id, task_id))
    ELSE
        assign_task_to_user(task_id, assigned_user_id)

\* DELETE /task-lists/{task_list_id}/tasks/{task_id}
tasks_delete_task(task_list_id, task_id) ==
    IF existing_task(task_list_id, task_id).kind # "ok" THEN
        Query("tasks.delete_task", existing_task(task_list_id, task_id))
    ELSE
        delete_task(task_id)

\* The endpoint an outcome belongs to: the use cases record their own name.
EndpointOf(op) ==
    CASE op = "update_task" -> "tasks.update_task"
      [] op = "update_task_status" -> "tasks.update_task_status"
      [] op = "assign_task_to_user" -> "tasks.assign_task_to_user"
      [] op = "delete_task" -> "tasks.delete_task"
      [] OTHER -> op

ScopedListIn == 1..MaxTaskLists
ScopedTaskIdIn == 0..(MaxFlowTasks + 1)

DoCreateScopedTask ==
    /\ next_task_id <= MaxFlowTasks
    /\ \E task_list_id \in {1, 2}, assigned_user_id \in {None, Some(1)} :
          create_task(TitleFor(next_task_id), <<"d">>, task_list_id, "medium", None,
                      assigned_user_id)

DoGetScopedTask ==
    \E task_list_id \in ScopedListIn, task_id \in ScopedTaskIdIn :
        tasks_get_task(task_list_id, task_id)

DoUpdateScopedTask ==
    \E task_list_id \in ScopedListIn, task_id \in ScopedTaskIdIn,
       title \in {None, Some(TitleFor(1))}, assigned_user_id \in {None, Some(1), Some(2)} :
        tasks_update_task(task_list_id, task_id, title, None, None, None, assigned_user_id)

DoUpdateScopedTaskStatus ==
    \E task_list_id \in ScopedListIn, task_id \in ScopedTaskIdIn :
        tasks_update_task_status(task_list_id, task_id, "completed")

DoAssignScopedTask ==
    \E task_list_id \in ScopedListIn, task_id \in ScopedTaskIdIn,
       assigned_user_id \in {None, Some(1)} :
        tasks_assign_task_to_user(task_list_id, task_id, assigned_user_id)

DoDeleteScopedTask ==
    \E task_list_id \in ScopedListIn, task_id \in ScopedTaskIdIn :
        tasks_delete_task(task_list_id, task_id)

NextScoped ==
    \/ DoCreateScopedTask
    \/ DoGetScopedTask
    \/ DoUpdateScopedTask
    \/ DoUpdateScopedTaskStatus
    \/ DoAssignScopedTask
    \/ DoDeleteScopedTask

SpecScoped == InitSeeded /\ [][NextScoped]_vars

\* C22: a get, update, status update, assignment or delete of a stored task
\* under a task list other than the task's own is answered with 404 and
\* leaves the task unchanged.
OtherListTaskNotFound ==
    [][\A task_list_id \in ScopedListIn, task_id \in ScopedTaskIdIn :
          ((\E t \in tasks : t.id = task_id /\ t.task_list_id # task_list_id)
           /\ \/ tasks_get_task(task_list_id, task_id)
              \/ \E title \in {None, Some(TitleFor(1))},
                    assigned_user_id \in {None, Some(1), Some(2)} :
                    tasks_update_task(task_list_id, task_id, title, None, None, None,
                                      assigned_user_id)
              \/ tasks_update_task_status(task_list_id, task_id, "completed")
              \/ \E assigned_user_id \in {None, Some(1)} :
                    tasks_assign_task_to_user(task_list_id, task_id, assigned_user_id)
              \/ tasks_delete_task(task_list_id, task_id))
          => /\ response_status(EndpointOf(result'.op), result'.kind) = "HTTP_404"
             /\ tasks' = tasks]_vars

\* ------------------------------------------------------------------------
\* Notifications (app/infrastructure/services/email_service.py)

\* MockEmailService.send_task_assignment_email: the record of the email is
\* appended to sent_emails.  TaskUseCases.__init__ takes the three
\* repositories and no email service, and no use case or endpoint calls
\* this method, so no action of the specifications contains it.
send_task_assignment_email(user, task, task_list) ==
    sent_emails' = Append(sent_emails,
                          [to |-> user.email, to_name |-> user.full_name,
                           type |-> "task_assignment", task_id |-> task.id,
                           task_title |-> task.title, task_list |-> task_list.name,
                           status |-> "sent"])

\* C23: create_task sends exactly one assignment notification when it
\* succeeds with an assigned_user_id, and none when it has no assignee or
\* fails.
AssignmentNotifiedOnce ==
    [][\A assigned_user_id \in {None, Some(1)} :
          create_task(TitleFor(next_task_id), <<"d">>, 1, "medium", None, assigned_user_id)
          => Len(sent_emails') - Len(sent_emails)
                = IF result'.kind = "ok" /\ assigned_user_id # None THEN 1 ELSE 0]_vars

\* ------------------------------------------------------------------------
\* Users and the tasks assigned to them

DoReassignFlowTask ==
    \E task_id \in FlowTaskIdIn, assigned_user_id \in FlowUserIn :
        update_task(task_id, None, None, None, None, assigned_user_id)

NextAssign ==
    \/ DoCreateFlowTask
    \/ DoAssignFlowTask
    \/ DoReassignFlowTask
    \/ DoCreateSecondUser
    \/ DoDeleteStoredUser

SpecAssign == InitSeeded /\ [][NextAssign]_vars

\* C24: every non-null assigned_user_id of a stored task refers to a stored
\* user, and delete_user of a user assigned to tasks always succeeds and
\* leaves no task assigned to that user.
AssignedUsersStored ==
    /\ [](\A t \in tasks :
            t.assigned_user_id # None => \E u \in users : u.id = Val(t.assigned_user_id))
    /\ [][\A user_id \in 1..MaxUsers :
             ((\E t \in tasks : t.assigned_user_id = Some(user_id)) /\ delete_user(user_id))
             => /\ result'.kind = "ok"
                /\ ~ \E u \in users' : u.id = user_id
                /\ ~ \E t \in tasks' : t.assigned_user_id = Some(user_id)
                /\ \A t \in tasks : \E t2 \in tasks' :
                      t2 = IF t.assigned_user_id = Some(user_id)
                              THEN [t EXCEPT !.assigned_user_id = None] ELSE t]_vars

\* Reached: user 1 was deleted while a task is assigned to user 2 and another
\* task, unassigned by the delete or never assigned, is stored.
AssignedUserDeleted ==
    /\ result.op = "delete_user" /\ result.kind = "ok"
    /\ ~ \E u \in users : u.id = 1
    /\ \E t \in tasks : t.assigned_user_id = None
    /\ \E t \in tasks : t.assigned_user_id = Some(2)

\* ------------------------------------------------------------------------
\* Updates that name the entity's own unique key

OwnUsernameIn == {<<"b","o","b">>, <<"c","a","l">>}
OwnEmailIn == {<<"a","@","x">>, <<"c","@","x">>}
OwnNameIn == {<<"X">>, <<"Y">>}
OwnTitleIn == {TitleFor(1), TitleFor(2)}

DoRekeyUser ==
    \E user_id \in 1..MaxUsers, username \in OptionalOf(OwnUsernameIn),
       email \in OptionalOf(OwnEmailIn) :
        /\ username # None \/ email # None
        /\ update_user(user_id, username, email, None, None)

DoRekeyTaskList ==
    \E task_list_id \in 1..MaxTaskLists, name \in OwnNameIn :
        update_task_list(task_list_id, Some(name), None)

DoRekeyTask ==
    \E task_id \in FlowTaskIdIn, title \in OwnTitleIn :
        update_task(task_id, Some(title), None, None, None, None)

NextOwnKey ==
    \/ DoCreateSecondUser
    \/ DoCreateFlowTask
    \/ DoRekeyUser
    \/ DoRekeyTaskList
    \/ DoRekeyTask

SpecOwnKey == InitSeeded /\ [][NextOwnKey]_vars

\* C25: update_user with the user's current username and/or email,
\* update_task_list with the list's current name and update_task with the
\* task's current title succeed and leave the stored rows as they are.
OwnKeyUpdateSucceeds ==
    [][/\ \A u \in users :
            \A username \in {None, Some(u.username)}, email \in {None, Some(u.email)} :
                ((username # None \/ email # None)
                 /\ update_user(u.id, username, email, None, None))
                => result'.kind = "ok" /\ Val(result'.value) = u /\ users' = users
       /\ \A l \in task_lists :
            update_task_list(l.id, Some(l.name), None)
            => result'.kind = "ok" /\ Val(result'.value) = l /\ task_lists' = task_lists
       /\ \A t \in tasks :
            update_task(t.id, Some(t.title), None, None, None, None)
            => result'.kind = "ok" /\ Val(result'.value) = t /\ tasks' = tasks]_vars

\* Reached: two users hold all the usernames and emails of the inputs, and
\* an update of user 1 that supplied a username or an email succeeded: the
\* supplied key is the user's own.
OwnKeyUpdated ==
    /\ Cardinality(users) = 2
    /\ Cardinality(tasks) = 2
    /\ result.op = "update_user" /\ result.kind = "ok"
    /\ Val(result.value).id = 1
    /\ Val(result.value) \in users

\* ------------------------------------------------------------------------
\* create_user on every kind of input

LongString(c, n) == [i \in 1..n |-> c]

NewUsernameIn == {<<"b","o","b">>, <<" ","c","a","l"," ">>, <<"b","o">>, <<" ","b"," ">>,
                  LongString("b", username_max_length + 1)}
NewEmailIn == {<<"a","@","x">>, <<"A","@","X">>, <<" ","B","@","x"," ">>, <<"a","x">>,
               <<"@">> \o LongString("x", email_max_length)}
NewFullNameIn == {<<"n">>, <<" ","m"," ">>, <<" ">>, <<>>,
                  LongString("n", full_name_max_length + 1)}

DoCreateNewUser ==
    \E username \in NewUsernameIn, email \in NewEmailIn, full_name \in NewFullNameIn :
        create_user(username, email, full_name, "active")

NextCreate == DoCreateNewUser \/ DoDeleteUser

SpecCreate == Init /\ [][NextCreate]_vars

\* number of characters of s that are not whitespace
RECURSIVE NonBlank(_)
NonBlank(s) ==
    IF s = <<>> THEN 0
    ELSE (IF Head(s) \in Whitespace THEN 0 ELSE 1) + NonBlank(Tail(s))

\* the outcome the claim promises for create_user(username, email, full_name)
CreatedNormalized(username, email, full_name) ==
    /\ result'.kind = "ok"
    /\ Val(result'.value) \in users'
    /\ Val(result'.value).username = strip(username)
    /\ Val(result'.value).email = lower(strip(email))
    /\ Val(result'.value).full_name = strip(full_name)

\* C26 as stated: create_user succeeds for every username with at least 3
\* non-blank characters, every email containing "@" and every non-empty
\* full_name that collide with no stored user, and the stored and returned
\* user has the email lowercased and trimmed and the username and full_name
\* trimmed.
ValidUserCreated ==
    [][\A username \in NewUsernameIn, email \in NewEmailIn, full_name \in NewFullNameIn :
          (/\ NonBlank(username) >= 3
           /\ Contains(email, "@")
           /\ full_name # <<>>
           /\ ~exists_by_username(strip(username), None)
           /\ ~exists_by_email(lower(strip(email)), None)
           /\ create_user(username, email, full_name, "active"))
          => CreatedNormalized(username, email, full_name)]_vars

\* C26: create_user succeeds for every username of 3 to 50 characters after
\* trimming, every email containing "@" of at most 100 characters after
\* trimming and every full_name of 1 to 100 characters after trimming, that
\* collide after this normalisation with no stored user; the stored and
\* returned user has the email lowercased and trimmed and the username and
\* full_name trimmed.
ValidBoundedUserCreated ==
    [][\A username \in NewUsernameIn, email \in NewEmailIn, full_name \in NewFullNameIn :
          (/\ Len(strip(username)) \in 3..username_max_length
           /\ Contains(email, "@") /\ Len(strip(email)) <= email_max_length
           /\ Len(strip(full_name)) \in 1..full_name_max_length
           /\ ~exists_by_username(strip(username), None)
           /\ ~exists_by_email(lower(strip(email)), None)
           /\ create_user(username, email, full_name, "active"))
          => CreatedNormalized(username, email, full_name)]_vars

\* Reached: the stored user "cal", "b@x", "m", whose fields can only come
\* from the inputs " cal ", " B@x " and " m ".
NormalizedUserStored ==
    /\ result.op = "create_user" /\ result.kind = "ok"
    /\ Val(result.value) \in users
    /\ Val(result.value).username = <<"c","a","l">>
    /\ Val(result.value).email = <<"b","@","x">>
    /\ Val(result.value).full_name = <<"m">>

\* C27: the listing of a stored task list, with filters that refer to a
\* stored user or to none, answers 200 and reports total_tasks equal to the
\* number of all tasks stored in that list, whatever the filters leave in
\* the returned task array.
TotalTasksUnfiltered ==
    [][result'.op = "get_tasks_by_list" =>
          \A q \in QueryIn :
             (/\ ~ListMissing(q[1])
              /\ (q[4] = None \/ ~UserMissing(Val(q[4])))
              /\ Query("get_tasks_by_list", get_tasks_by_list(q[1], q[2], q[3], q[4])))
             => /\ result'.kind = "HTTP_200"
                /\ result'.value.total_tasks
                      = Cardinality({t \in tasks : t.task_list_id = q[1]})]_vars

\* C28: a PUT /task-lists/{list_id}/tasks/{task_id} on an assigned task of
\* that list with assigned_user_id null leaves the stored task without an
\* assigned user.
NullAssigneeUnassigns ==
    [][\A task_list_id \in ScopedListIn, task_id \in ScopedTaskIdIn :
          ((\E t \in tasks : /\ t.id = task_id
                             /\ t.task_list_id = task_list_id
                             /\ t.assigned_user_id # None)
           /\ tasks_update_task(task_list_id, task_id, None, None, None, None, None))
          => \A t \in tasks' : t.id = task_id => t.assigned_user_id = None]_vars

\* ------------------------------------------------------------------------
\* Updates that fail after a field was accepted

LaterUsernameIn == {<<" ","d","a","n">>}
LaterEmailIn == {<<"c","@","x">>, <<"A","@","X">>}
LaterFullNameIn == {<<" ">>}
LaterTitleIn == {<<" ","b">>}

\* every update of a user supplies a username, of a task a title
DoUpdateUserFields ==
    \E user_id \in 1..MaxUsers, username \in LaterUsernameIn,
       email \in OptionalOf(LaterEmailIn), full_name \in OptionalOf(LaterFullNameIn) :
        update_user(user_id, Some(username), email, full_name, None)

DoUpdateTaskFields ==
    \E task_id \in FlowTaskIdIn, title \in LaterTitleIn,
       description \in {None, Some(<<" ">>)}, assigned_user_id \in {None, Some(1), Some(2)} :
        update_task(task_id, Some(title), description, None, None, assigned_user_id)

NextLater ==
    \/ DoCreateSecondUser
    \/ DoCreateFlowTask
    \/ DoUpdateUserFields
    \/ DoUpdateTaskFields

SpecLater == InitSeeded /\ [][NextLater]_vars

\* C29: an update_user or update_task call that fails, on whichever field,
\* leaves every stored user and task as it was, the fields the call had
\* accepted before the failure included.
FailedUpdateWritesNothing ==
    [][(result'.op \in {"update_user", "update_task"} /\ result'.kind # "ok")
          => users' = users /\ tasks' = tasks]_vars

\* Reached: an update_user that supplied a username no user holds was
\* refused for its email, which another user holds.
UpdateFailedOnEmail ==
    /\ result.op = "update_user"
    /\ result.kind = "DuplicateEntity" /\ result.about = "email"
    /\ \A u \in users : u.username \notin {strip(n) : n \in LaterUsernameIn}

\* ------------------------------------------------------------------------
\* Tasks and the task list they belong to

DoCreateThirdTaskList == create_task_list(<<"Z">>, None)

DoDeleteStoredTaskList == \E task_list_id \in 1..MaxTaskLists : delete_task_list(task_list_id)

DoRenameStoredTaskList ==
    \E task_list_id \in 1..MaxTaskLists : update_task_list(task_list_id, Some(<<"X">>), None)

DoCreateOwnedTask ==
    /\ next_task_id <= MaxFlowTasks
    /\ \E task_list_id \in {1, 2} :
          create_task(TitleFor(next_task_id), <<"d">>, task_list_id, "medium", None, None)

DoUpdateOwnedTask ==
    \E task_id \in FlowTaskIdIn :
        update_task(task_id, None, None, None, None, Some(1))

DoCompleteOwnedTask ==
    \E task_id \in FlowTaskIdIn : update_task_status(task_id, "completed")

DoAssignOwnedTask ==
    \E task_id \in FlowTaskIdIn : assign_task_to_user(task_id, Some(1))

\* Tasks leave the store only together with their list here, so that the
\* tasks a delete_task_list removed can be told from the ids handed out.
NextOwned ==
    \/ DoCreateOwnedTask
    \/ DoCreateThirdTaskList
    \/ DoDeleteStoredTaskList
    \/ DoRenameStoredTaskList
    \/ DoUpdateOwnedTask
    \/ DoCompleteOwnedTask
    \/ DoAssignOwnedTask

SpecOwned == InitSeeded /\ [][NextOwned]_vars

\* C30: the task_list_id of every stored task refers to a stored task list;
\* delete_task_list(L) removes every task of L and no other task, and no
\* operation changes the task_list_id of a stored task.
TasksOwnedByStoredList ==
    /\ [](\A t \in tasks : \E l \in task_lists : l.id = t.task_list_id)
    /\ [][/\ \A t \in tasks, t2 \in tasks' : t2.id = t.id => t2.task_list_id = t.task_list_id
          /\ \A L \in 1..MaxTaskLists :
                (TaskListRepo_get_by_id(L) # None /\ delete_task_list(L))
                => tasks' = {t \in tasks : t.task_list_id # L}]_vars

\* Reached: task list 1 was deleted; of the MaxFlowTasks tasks created only
\* one is left, in list 2, so the other one went with list 1.
TaskListDeletedWithTasks ==
    /\ result.op = "delete_task_list" /\ result.kind = "ok"
    /\ TaskListRepo_get_by_id(1) = None
    /\ next_task_id = MaxFlowTasks + 1
    /\ Cardinality(tasks) = MaxFlowTasks - 1
    /\ \A t \in tasks : t.task_list_id = 2

====
